---- MODULE Spec2Model ----
(***************************************************************************)
(* Symbolic reachability (examples/tbddmc.c): loading a model, sorting and *)
(* merging the transition groups, and the four exploration strategies      *)
(* bfs, par, sat and chaining.                                             *)
(*                                                                         *)
(* A diagram (TBDD) is canonical: it is identified with the set of state   *)
(* vectors it denotes over the full vector domain (a sub-diagram reached   *)
(* below variable 2b denotes a set that does not depend on bits 0..b).     *)
(* A state vector is a sequence of bits; bit b (0-based) is element b+1,   *)
(* its current-state variable is 2b and its next-state variable 2b+1.      *)
(***************************************************************************)
EXTENDS Integers, Sequences, FiniteSets, TLC

VARIABLES
    file,        \* the model file given on the command line
    run,         \* which program run this is (index into Configs)
    pc,          \* position of main
    states,      \* set_t states: [bdd, variables]
    next,        \* rel_t *next: sequence of [bdd, variables, r_proj, w_proj, satdom]
    next_count,  \* number of groups
    visited,     \* local of bfs / par / chaining
    front,       \* local of bfs / par (next_level of chaining)
    iteration,   \* local of bfs / par / chaining
    tasks,       \* live Lace tasks: path in the call tree -> frame
    cache,       \* operation cache: set of <<set, idx, result>>
    depth,       \* nesting depth of a recursion that never reaches its base case
    levels,      \* <<visited, front>> after each completed level of this run
    final,       \* what each earlier run on the same file ended with
    tbdd_refs    \* protected references pushed by main and by the strategy task

vars == <<file, run, pc, states, next, next_count, visited, front, iteration,
          tasks, cache, depth, levels, final, tbdd_refs>>

(***************************************************************************)
(* Bounds of the model.                                                    *)
(***************************************************************************)
MaxGroups == 2
MaxDepth == 2

Bit == {0, 1}
NoVar == 1048575
\* the entry of a run that has not ended with a result
None == [bdd |-> {}, count |-> -1, levels |-> <<>>, defined |-> FALSE]

RECURSIVE SumSeq(_)
SumSeq(s) == IF s = <<>> THEN 0 ELSE Head(s) + SumSeq(Tail(s))

(***************************************************************************)
(* Domain data read by main.                                               *)
(***************************************************************************)
statebits == file.statebits
vectorsize == Len(file.statebits)
totalbits == SumSeq(file.statebits)
vectordom == [i \in 1..totalbits |-> 2 * (i - 1)]
StateSpace == [1..totalbits -> Bit]

(***************************************************************************)
(* The diagram package, which the program only calls.  Sets of states      *)
(* stand for set diagrams; a relation diagram over the variables vars is a *)
(* set of pairs <<x, y>> of assignments to the state bits of vars.         *)
(***************************************************************************)
BitsOf(vs) == {vs[i] \div 2 : i \in 1..Len(vs)}
Restrict(s, B) == [b \in B |-> s[b + 1]]
Flip(s, b) == [s EXCEPT ![b + 1] = 1 - s[b + 1]]
DependsOn(S, b) == \E s \in S : Flip(s, b) \notin S
Support(S) == {b \in 0..(totalbits - 1) : DependsOn(S, b)}

tbdd_false == {}
tbdd_or(a, b, dom) == a \cup b
tbdd_diff(a, b, dom) == a \ b
tbdd_and(a, b, dom) == a \cap b
tbdd_from_array(arr, n) == SubSeq(arr, 1, n)
tbdd_getvar(vs) == IF vs = <<>> THEN NoVar ELSE vs[1]

\* relational image: the bits of vars change as rel allows, the others stay
tbdd_relnext(set, rel, vs, dom) ==
    {t \in StateSpace : \E s \in set :
        /\ <<Restrict(s, BitsOf(vs)), Restrict(t, BitsOf(vs))>> \in rel
        /\ \A b \in (0..(totalbits - 1)) \ BitsOf(vs) : t[b + 1] = s[b + 1]}

\* the operands of an operation over dom must lie within dom
InDomain(set, vs, dom) ==
    /\ BitsOf(vs) \subseteq BitsOf(dom)
    /\ Support(set) \subseteq BitsOf(dom)

tbdd_satcount(set, vs) == Cardinality({Restrict(s, BitsOf(vs)) : s \in set})

\* lift a relation over vs to the variables of totaldom, new variables free
tbdd_extend_domain(rel, vs, totaldom) ==
    {p \in [BitsOf(totaldom) -> Bit] \X [BitsOf(totaldom) -> Bit] :
        <<[b \in BitsOf(vs) |-> p[1][b]], [b \in BitsOf(vs) |-> p[2][b]]>> \in rel}

(***************************************************************************)
(* Structure of a set diagram: its tag (the first variable it does not     *)
(* skip as "don't care"), the variable of its node (the variables from the *)
(* tag up to it are suppressed as zero), its cofactors, and node creation. *)
(***************************************************************************)
MinOf(B) == CHOOSE b \in B : \A c \in B : b <= c
NextVar(b) == IF b = totalbits - 1 THEN NoVar ELSE 2 * (b + 1)
Low(S, b) == {s \in StateSpace : [s EXCEPT ![b + 1] = 0] \in S}
High(S, b) == {s \in StateSpace : [s EXCEPT ![b + 1] = 1] \in S}

TBDD_GETTAG(S) == IF Support(S) = {} THEN NoVar ELSE 2 * MinOf(Support(S))

RECURSIVE NodeVar(_, _)
NodeVar(S, b) ==
    IF High(S, b) = {} /\ TBDD_GETTAG(Low(S, b)) = NextVar(b)
    THEN (IF b = totalbits - 1 THEN NoVar ELSE NodeVar(Low(S, b), b + 1))
    ELSE 2 * b

tbddnode_getvariable(S) ==
    IF TBDD_GETTAG(S) = NoVar THEN NoVar ELSE NodeVar(S, TBDD_GETTAG(S) \div 2)

tbdd_settag(S, tag) == Low(S, (tag \div 2) - 1)
tbddnode_low(S, v) == Low(S, v \div 2)
tbddnode_high(S, v) == High(S, v \div 2)
tbdd_makenode(v, low, high, nextvar) ==
    {s \in low : s[(v \div 2) + 1] = 0} \cup {s \in high : s[(v \div 2) + 1] = 1}

(***************************************************************************)
(* The model files tried.  A group of a file is its projections and its    *)
(* diagram; the diagram is a relation over the bits of the group's         *)
(* variables.  Two vector layouts: two components of one bit each, and a   *)
(* two-bit component followed by a one-bit component.                      *)
(***************************************************************************)
GroupA == [r_proj |-> <<0>>, w_proj |-> <<0>>,
           bdd |-> {<<(0 :> 0), (0 :> 1)>>}]
GroupB == [r_proj |-> <<0>>, w_proj |-> <<1>>,
           bdd |-> {<<(0 :> 1 @@ 1 :> x), (0 :> 1 @@ 1 :> 1)>> : x \in Bit}]
GroupC == [r_proj |-> <<1>>, w_proj |-> <<1>>,
           bdd |-> {<<(1 :> 0), (1 :> 1)>>}]
GroupD == [r_proj |-> <<1>>, w_proj |-> <<0>>,
           bdd |-> {<<(0 :> x @@ 1 :> 1), (0 :> 0 @@ 1 :> 1)>> : x \in Bit}]
GroupE == [r_proj |-> <<0>>, w_proj |-> <<0>>,
           bdd |-> {<<(0 :> 1), (0 :> 0)>>}]
GroupF == [r_proj |-> <<1>>, w_proj |-> <<1>>,
           bdd |-> {<<(1 :> 1), (1 :> 0)>>}]
\* a group whose write projection names component 2 of a 2-component vector
GroupX == [r_proj |-> <<0>>, w_proj |-> <<2>>,
           bdd |-> {<<(0 :> 0), (0 :> 1)>>}]

Catalogue == {GroupA, GroupB, GroupC, GroupD, GroupE, GroupF}

\* for statebits <<2, 1>>: component 0 is bits 0 and 1, component 1 is bit 2
GroupP == [r_proj |-> <<1>>, w_proj |-> <<1>>,
           bdd |-> {<<(2 :> 0), (2 :> 1)>>}]
GroupQ == [r_proj |-> <<0>>, w_proj |-> <<0>>,
           bdd |-> {<<(0 :> 0 @@ 1 :> 0), (0 :> 0 @@ 1 :> 1)>>,
                    <<(0 :> 0 @@ 1 :> 1), (0 :> 1 @@ 1 :> 0)>>,
                    <<(0 :> 1 @@ 1 :> 0), (0 :> 1 @@ 1 :> 1)>>}]
GroupR == [r_proj |-> <<0>>, w_proj |-> <<1>>,
           bdd |-> {<<(0 :> 1 @@ 1 :> 1 @@ 2 :> x), (0 :> 1 @@ 1 :> 1 @@ 2 :> 1)>> :
                       x \in Bit}]
GroupS == [r_proj |-> <<1>>, w_proj |-> <<0>>,
           bdd |-> {<<(0 :> q[1] @@ 1 :> q[2] @@ 2 :> 1), (0 :> 0 @@ 1 :> 0 @@ 2 :> 1)>> :
                       q \in Bit \X Bit}]

WideCatalogue == {GroupP, GroupQ, GroupR, GroupS}

RECURSIVE SeqsUpTo(_, _)
SeqsUpTo(S, n) ==
    IF n = 0 THEN {<<>>}
    ELSE LET shorter == SeqsUpTo(S, n - 1)
         IN shorter \cup {Append(q, g) : q \in shorter, g \in S}

InitialSets == {{<<0, 0>>}, {<<0, 1>>, <<1, 1>>}, {<<0, 0>>, <<1, 1>>}}
WideInitialSets == {{<<0, 0, 0>>}, {<<0, 1, 0>>, <<1, 0, 0>>},
                    {<<0, 0, 1>>, <<0, 1, 1>>, <<1, 1, 0>>}}

\* the scenario: (0,0) with group A, then group B
ScenarioFile ==
    [statebits |-> <<1, 1>>, k |-> -1, proj |-> <<>>, bdd |-> {<<0, 0>>},
     groups |-> <<GroupA, GroupB>>, complete |-> TRUE]

\* some files with three groups: groups out of order, two groups with the
\* same top variable above a deeper one, a cycle through both components
LongGroups == {<<GroupC, GroupA, GroupE>>, <<GroupD, GroupB, GroupA>>}
WideLongGroups == {<<GroupP, GroupQ, GroupS>>, <<GroupR, GroupP, GroupQ>>}

WellFormedFiles ==
    {[statebits |-> <<1, 1>>, k |-> -1, proj |-> <<>>, bdd |-> I,
      groups |-> gs, complete |-> TRUE] :
        I \in InitialSets, gs \in SeqsUpTo(Catalogue, MaxGroups) \cup LongGroups}
    \cup
    {[statebits |-> <<2, 1>>, k |-> -1, proj |-> <<>>, bdd |-> I,
      groups |-> gs, complete |-> TRUE] :
        I \in WideInitialSets,
        gs \in SeqsUpTo(WideCatalogue, MaxGroups) \cup WideLongGroups}

\* an out-of-range component index, in a group and in the initial set;
\* and a file that ends before its diagrams
BadFiles ==
    {[statebits |-> <<1, 1>>, k |-> -1, proj |-> <<>>, bdd |-> {<<0, 0>>},
      groups |-> <<GroupX>>, complete |-> TRUE],
     [statebits |-> <<1, 1>>, k |-> 1, proj |-> <<2>>, bdd |-> {<<0, 0>>},
      groups |-> <<GroupA>>, complete |-> TRUE],
     [statebits |-> <<1, 1>>, k |-> -1, proj |-> <<>>, bdd |-> {<<0, 0>>},
      groups |-> <<GroupA>>, complete |-> FALSE]}

\* files whose initial set is projected on component 0 (k = 1).  Its diagram
\* is over variable 0 only; the strategies read it against the full vector
\* domain, where the variable of component 1 is skipped below a tag (free) or
\* suppressed from a tag on (zero): "component 0 is 0" is the tag 0 on the
\* terminal and reads as {(0,0)}, "component 0 is 1" is a node on variable 0
\* whose high edge carries the terminal's tag and reads as {(1,0), (1,1)}, and
\* the whole projected set reads as the whole state space
ProjectedFiles ==
    {[statebits |-> <<1, 1>>, k |-> 1, proj |-> <<0>>, bdd |-> I,
      groups |-> gs, complete |-> TRUE] :
        I \in {{<<0, 0>>}, {<<1, 0>>, <<1, 1>>},
               {<<0, 0>>, <<0, 1>>, <<1, 0>>, <<1, 1>>}},
        gs \in {<<GroupA>>, <<GroupD>>, <<GroupA, GroupB>>}}

Files == WellFormedFiles \cup BadFiles \cup ProjectedFiles

InRange(proj) == \A i \in 1..Len(proj) : proj[i] \in 0..(vectorsize - 1)
WellFormed ==
    /\ file.complete
    /\ file.k = -1 /\ InRange(file.proj)
    /\ \A i \in 1..Len(file.groups) :
          InRange(file.groups[i].r_proj) /\ InRange(file.groups[i].w_proj)

(***************************************************************************)
(* set_load: the declared variables of the initial set and its diagram.    *)
(***************************************************************************)
RECURSIVE set_vars(_, _, _, _, _)
set_vars(i, j, cv, proj, vs) ==
    IF i < vectorsize /\ j < Len(proj)
    THEN IF i = proj[j + 1]
         THEN set_vars(i + 1, j + 1, cv + 2 * statebits[i + 1], proj,
                       vs \o [x \in 1..statebits[i + 1] |-> cv + 2 * (x - 1)])
         ELSE set_vars(i + 1, j, cv + 2 * statebits[i + 1], proj, vs)
    ELSE vs

set_load(f) ==
    [bdd |-> f.bdd,
     variables |-> IF f.k = -1
                   THEN tbdd_from_array([i \in 1..totalbits |-> 2 * (i - 1)], totalbits)
                   ELSE set_vars(0, 0, 0, f.proj, <<>>)]

(***************************************************************************)
(* rel_load_proj: a_proj, the relation's variables and its satdom.         *)
(***************************************************************************)
\* a variant of a_proj that keeps the read index when both indexes are equal
RECURSIVE a_proj_twice(_, _, _, _, _)
a_proj_twice(r_proj, w_proj, r_i, w_i, a) ==
    IF r_i < Len(r_proj) \/ w_i < Len(w_proj)
    THEN IF r_i < Len(r_proj) /\ w_i < Len(w_proj)
         THEN IF r_proj[r_i + 1] < w_proj[w_i + 1]
              THEN a_proj_twice(r_proj, w_proj, r_i + 1, w_i, Append(a, r_proj[r_i + 1]))
              ELSE a_proj_twice(r_proj, w_proj, r_i, w_i + 1, Append(a, w_proj[w_i + 1]))
         ELSE IF r_i < Len(r_proj)
         THEN a_proj_twice(r_proj, w_proj, r_i + 1, w_i, Append(a, r_proj[r_i + 1]))
         ELSE a_proj_twice(r_proj, w_proj, r_i, w_i + 1, Append(a, w_proj[w_i + 1]))
    ELSE a

RECURSIVE a_proj(_, _, _, _, _)
a_proj(r_proj, w_proj, r_i, w_i, a) ==
    IF r_i < Len(r_proj) \/ w_i < Len(w_proj)
    THEN IF r_i < Len(r_proj) /\ w_i < Len(w_proj)
         THEN IF r_proj[r_i + 1] < w_proj[w_i + 1]
              THEN a_proj(r_proj, w_proj, r_i + 1, w_i, Append(a, r_proj[r_i + 1]))
              ELSE IF r_proj[r_i + 1] > w_proj[w_i + 1]
              THEN a_proj(r_proj, w_proj, r_i, w_i + 1, Append(a, w_proj[w_i + 1]))
              ELSE a_proj(r_proj, w_proj, r_i + 1, w_i + 1, Append(a, w_proj[w_i + 1]))
         ELSE IF r_i < Len(r_proj)
         THEN a_proj(r_proj, w_proj, r_i + 1, w_i, Append(a, r_proj[r_i + 1]))
         ELSE a_proj(r_proj, w_proj, r_i, w_i + 1, Append(a, w_proj[w_i + 1]))
    ELSE a

RECURSIVE all_vars(_, _, _, _, _)
all_vars(i, j, curvar, proj, vs) ==
    IF i < vectorsize /\ j < Len(proj)
    THEN IF i = proj[j + 1]
         THEN all_vars(i + 1, j + 1, curvar + 2 * statebits[i + 1], proj,
                       vs \o [x \in 1..(2 * statebits[i + 1]) |-> curvar + (x - 1)])
         ELSE all_vars(i + 1, j, curvar + 2 * statebits[i + 1], proj, vs)
    ELSE vs

\* a variant of satdom_of that takes the whole vector domain
satdom_of_full(vs) ==
    tbdd_from_array([i \in 1..totalbits |-> 2 * (i - 1)], totalbits)

satdom_of(vs) ==
    LET top_var == vs[1] \div 2
    IN tbdd_from_array([i \in 1..(totalbits - top_var) |-> 2 * (top_var + i - 1)],
                       totalbits - top_var)

rel_load_proj(g) ==
    LET vs == all_vars(0, 0, 0, a_proj(g.r_proj, g.w_proj, 0, 0, <<>>), <<>>)
    IN [bdd |-> tbdd_false, variables |-> vs,
        r_proj |-> g.r_proj, w_proj |-> g.w_proj, satdom |-> satdom_of(vs)]

rel_load(rel, g) == [rel EXCEPT !.bdd = g.bdd]

(***************************************************************************)
(* The runs of the program on one file: every strategy, without and with   *)
(* --merge-relations.  strategy: 0 = bfs, 1 = par, 2 = sat, 3 = chaining.  *)
(***************************************************************************)
Configs == <<[strategy |-> 3, merge_relations |-> FALSE],
             [strategy |-> 2, merge_relations |-> FALSE],
             [strategy |-> 0, merge_relations |-> FALSE],
             [strategy |-> 1, merge_relations |-> FALSE],
             [strategy |-> 3, merge_relations |-> TRUE],
             [strategy |-> 0, merge_relations |-> TRUE],
             [strategy |-> 1, merge_relations |-> TRUE],
             [strategy |-> 2, merge_relations |-> TRUE]>>
strategy == Configs[run].strategy
merge_relations == Configs[run].merge_relations

\* the protected references a task holds: the pointers and the values it has
\* pushed, and the number of its spawned tasks whose result is still protected
NoRefs == [ptrs |-> <<>>, vals |-> <<>>, spawns |-> 0]
tbdd_refs_pushptr(r, ptr) == [r EXCEPT !.ptrs = Append(@, ptr)]
tbdd_refs_popptr(r, amount) == [r EXCEPT !.ptrs = SubSeq(@, 1, Len(@) - amount)]
tbdd_refs_push(r, val) == [r EXCEPT !.vals = Append(@, val)]
tbdd_refs_pop(r, amount) == [r EXCEPT !.vals = SubSeq(@, 1, Len(@) - amount)]
tbdd_refs_spawn(r) == [r EXCEPT !.spawns = @ + 1]
tbdd_refs_sync(r) == [r EXCEPT !.spawns = @ - 1]

NoSet == [bdd |-> tbdd_false, variables |-> <<>>]

Fresh ==
    /\ pc = "start"
    /\ states = NoSet
    /\ next = <<>>
    /\ next_count = 0
    /\ visited = tbdd_false
    /\ front = tbdd_false
    /\ iteration = 0
    /\ tasks = <<>>
    /\ cache = {}
    /\ depth = 0
    /\ levels = <<>>
    /\ tbdd_refs = NoRefs

Init ==
    /\ file \in Files
    /\ run = 1
    /\ final = [c \in 1..Len(Configs) |-> None]
    /\ Fresh

(***************************************************************************)
(* main, lines 716-748: read the file.                                     *)
(***************************************************************************)
Load ==
    /\ pc = "start"
    /\ IF file.complete
       THEN /\ states' = set_load(file)
            /\ next_count' = Len(file.groups)
            /\ next' = [i \in 1..Len(file.groups) |->
                           rel_load(rel_load_proj(file.groups[i]), file.groups[i])]
            /\ pc' = "loaded"
       ELSE /\ pc' = "aborted"
            /\ UNCHANGED <<states, next, next_count>>
    /\ UNCHANGED <<tbdd_refs, file, run, visited, front, iteration, tasks, cache, depth,
                   levels, final>>

(***************************************************************************)
(* main, lines 754-768: gnome sort of next[] on the top variable, for sat  *)
(* and chaining.  i and j are the C indices.                               *)
(***************************************************************************)
\* a variant of gnome_sort that also swaps two groups of equal top variable
RECURSIVE gnome_sort_eager(_, _, _)
gnome_sort_eager(nx, i, j) ==
    IF i < Len(nx)
    THEN IF tbdd_getvar(nx[i].variables) >= tbdd_getvar(nx[i + 1].variables)
         THEN LET swapped == [nx EXCEPT ![i] = nx[i + 1], ![i + 1] = nx[i]]
              IN IF i - 1 # 0 THEN gnome_sort_eager(swapped, i - 1, j)
                 ELSE gnome_sort_eager(swapped, j, j + 1)
         ELSE gnome_sort_eager(nx, j, j + 1)
    ELSE nx

RECURSIVE gnome_sort(_, _, _)
gnome_sort(nx, i, j) ==
    IF i < Len(nx)
    THEN IF tbdd_getvar(nx[i].variables) > tbdd_getvar(nx[i + 1].variables)
         THEN LET swapped == [nx EXCEPT ![i] = nx[i + 1], ![i + 1] = nx[i]]
              IN IF i - 1 # 0 THEN gnome_sort(swapped, i - 1, j)
                 ELSE gnome_sort(swapped, j, j + 1)
         ELSE gnome_sort(nx, j, j + 1)
    ELSE nx

Sort ==
    /\ pc = "loaded"
    /\ next' = IF strategy = 2 \/ strategy = 3 THEN gnome_sort(next, 1, 2) ELSE next
    /\ pc' = IF merge_relations THEN "merge" ELSE "ready"
    /\ UNCHANGED <<tbdd_refs, file, run, states, next_count, visited, front, iteration,
                   tasks, cache, depth, levels, final>>

(***************************************************************************)
(* Lace tasks.  A task is named by its path from the root task: SPAWN adds *)
(* child 0, CALL adds child 1; a finished child waits at "ret" until its   *)
(* parent takes the result (SYNC, or the return of the CALL).              *)
(***************************************************************************)
Root == <<>>
Spawned(p) == Append(p, 0)
Called(p) == Append(p, 1)
Live(p) == p \in DOMAIN tasks
Returned(p) == Live(p) /\ tasks[p].pc = "ret"
Without(ts, P) == [q \in (DOMAIN ts) \ P |-> ts[q]]
Put(ts, p, frame) == [q \in (DOMAIN ts) \cup {p} |-> IF q = p THEN frame ELSE ts[q]]

(***************************************************************************)
(* extend_relation, big_union and the merge step of main (lines 783-804).  *)
(***************************************************************************)
\* which state bits are in rel
has(vs) == {vs[i] \div 2 : i \in {j \in 1..Len(vs) : vs[j] \div 2 < totalbits}}

\* "s=s'" for all variables not in rel
eq_rel(vs, totaldom) ==
    {q \in [BitsOf(totaldom) -> Bit] \X [BitsOf(totaldom) -> Bit] :
        \A i \in (0..(totalbits - 1)) \ has(vs) : q[1][i] = q[2][i]}

\* a variant of extend_relation that leaves out "s=s'"
extend_relation_free(relation, vs, totaldom) ==
    tbdd_extend_domain(relation, vs, totaldom)

extend_relation(relation, vs, totaldom) ==
    tbdd_and(tbdd_extend_domain(relation, vs, totaldom), eq_rel(vs, totaldom), totaldom)

\* what extend_relation leaves of the protected references r it was called
\* with: low is pushed and popped for every bit not in rel (i counts down),
\* then eq and result are pushed and both popped
RECURSIVE eq_refs(_, _, _)
eq_refs(r, vs, i) ==
    IF i >= 0
    THEN eq_refs(IF i \in has(vs) THEN r
                 ELSE tbdd_refs_pop(tbdd_refs_push(r, "low"), 1), vs, i - 1)
    ELSE r
extend_relation_refs(r, vs) ==
    tbdd_refs_pop(tbdd_refs_push(tbdd_refs_push(eq_refs(r, vs, totalbits - 1),
                                                "eq"), "result"), 2)

\* the loop of main over the groups, from group i on
RECURSIVE merge_refs(_, _)
merge_refs(r, i) ==
    IF i < next_count
    THEN merge_refs(extend_relation_refs(r, next[i + 1].variables), i + 1)
    ELSE r

big_union_frame(first, count) ==
    [fn |-> "big_union", pc |-> "start", first |-> first, count |-> count,
     right |-> tbdd_false, res |-> tbdd_false, refs |-> NoRefs]

big_union_merge(left, right, first) == tbdd_or(left, right, next[first + 1].variables)

MergeExtend ==
    /\ pc = "merge"
    /\ LET newvars == tbdd_from_array([i \in 1..(2 * totalbits) |-> i - 1], 2 * totalbits)
       IN next' = [i \in 1..next_count |->
                     [next[i] EXCEPT !.bdd = extend_relation(next[i].bdd,
                                                 next[i].variables, newvars),
                                     !.variables = newvars]]
    /\ tasks' = IF next_count >= 1
                THEN Put(tasks, Root, big_union_frame(0, next_count))
                ELSE tasks
    /\ pc' = "union"
    /\ tbdd_refs' = tbdd_refs_pop(merge_refs(tbdd_refs_push(tbdd_refs, "newvars"), 0), 1)
    /\ UNCHANGED <<file, run, states, next_count, visited, front, iteration,
                   cache, depth, levels, final>>

BigUnionEnter(p) ==
    /\ Live(p) /\ tasks[p].fn = "big_union" /\ tasks[p].pc = "start"
    /\ LET f == tasks[p]
       IN IF f.count = 1
          THEN tasks' = Put(tasks, p, [f EXCEPT !.pc = "ret",
                                                !.res = next[f.first + 1].bdd])
          ELSE tasks' = Put(Put(Put(tasks, p,
                   [f EXCEPT !.pc = "call", !.refs = tbdd_refs_spawn(@)]),
                   Spawned(p), big_union_frame(f.first, f.count \div 2)),
                   Called(p), big_union_frame(f.first + f.count \div 2,
                                              f.count - f.count \div 2))
    /\ UNCHANGED <<tbdd_refs, file, run, pc, states, next, next_count, visited, front,
                   iteration, cache, depth, levels, final>>

BigUnionCalled(p) ==
    /\ Live(p) /\ tasks[p].fn = "big_union" /\ tasks[p].pc = "call"
    /\ Returned(Called(p))
    /\ tasks' = Put(Without(tasks, {Called(p)}), p,
                    [tasks[p] EXCEPT !.pc = "sync", !.right = tasks[Called(p)].res,
                                     !.refs = tbdd_refs_push(@, "right")])
    /\ UNCHANGED <<tbdd_refs, file, run, pc, states, next, next_count, visited, front,
                   iteration, cache, depth, levels, final>>

BigUnionSync(p) ==
    /\ Live(p) /\ tasks[p].fn = "big_union" /\ tasks[p].pc = "sync"
    /\ Returned(Spawned(p))
    /\ tasks' = Put(Without(tasks, {Spawned(p)}), p,
                    [tasks[p] EXCEPT !.pc = "ret",
                        !.res = big_union_merge(tasks[Spawned(p)].res, tasks[p].right,
                                                tasks[p].first),
                        !.refs = tbdd_refs_pop(tbdd_refs_push(tbdd_refs_sync(@),
                                                              "left"), 2)])
    /\ UNCHANGED <<tbdd_refs, file, run, pc, states, next, next_count, visited, front,
                   iteration, cache, depth, levels, final>>

\* big_union(0, 0) spawns and calls itself with count = 0, without end
MergeDiverge ==
    /\ pc = "union" /\ next_count = 0
    /\ IF depth < MaxDepth
       THEN depth' = depth + 1 /\ pc' = pc
       ELSE depth' = depth /\ pc' = "crashed"
    /\ UNCHANGED <<tbdd_refs, file, run, states, next, next_count, visited, front, iteration,
                   tasks, cache, levels, final>>

MergeDone ==
    /\ pc = "union" /\ Returned(Root)
    /\ next' = [i \in 1..Len(next) |->
                   IF i = 1 THEN [next[i] EXCEPT !.bdd = tasks[Root].res]
                   ELSE [next[i] EXCEPT !.bdd = tbdd_false, !.variables = <<>>]]
    /\ next_count' = 1
    /\ tasks' = Without(tasks, {Root})
    /\ pc' = "ready"
    /\ UNCHANGED <<tbdd_refs, file, run, states, visited, front, iteration, cache, depth,
                   levels, final>>

(***************************************************************************)
(* go_bfs and bfs.                                                         *)
(***************************************************************************)
\* a variant of go_bfs that takes the successors of group "from" only
go_bfs_left(cur, vis, from, len) ==
    tbdd_diff(tbdd_relnext(cur, next[from + 1].bdd, next[from + 1].variables,
                           vectordom), vis, vectordom)

\* a variant of go_bfs that takes the successors of the last group of the range only
go_bfs_right(cur, vis, from, len) ==
    tbdd_diff(tbdd_relnext(cur, next[from + len].bdd, next[from + len].variables,
                           vectordom), vis, vectordom)

\* what go_bfs leaves of the protected references r it was called with
RECURSIVE go_bfs_refs(_, _, _)
go_bfs_refs(r, from, len) ==
    IF len = 1
    THEN tbdd_refs_pop(tbdd_refs_push(r, "succ"), 1)
    ELSE LET left == tbdd_refs_push(go_bfs_refs(r, from, len \div 2), "left")
             right == tbdd_refs_push(go_bfs_refs(left, from + len \div 2,
                                                 len - len \div 2), "right")
         IN tbdd_refs_pop(right, 2)

RECURSIVE go_bfs(_, _, _, _)
go_bfs(cur, vis, from, len) ==
    IF len = 1
    THEN LET succ == tbdd_relnext(cur, next[from + 1].bdd, next[from + 1].variables,
                                  vectordom)
         IN tbdd_diff(succ, vis, vectordom)
    ELSE LET left == go_bfs(cur, vis, from, len \div 2)
             right == go_bfs(cur, vis, from + len \div 2, len - len \div 2)
         IN tbdd_or(left, right, vectordom)

\* a variant of LevelDone that keeps only the new front as visited
LevelDone_forgetful(newfront, loop) ==
    /\ front' = newfront
    /\ visited' = newfront
    /\ iteration' = iteration + 1
    /\ levels' = Append(levels, <<visited', front'>>)
    /\ IF newfront # tbdd_false
       THEN pc' = loop /\ UNCHANGED states
       ELSE /\ states' = [states EXCEPT !.bdd = visited']
            /\ pc' = "returned"

\* the tail of one pass of the do-while loop of bfs and par, given the new front
LevelDone(newfront, loop) ==
    /\ front' = newfront
    /\ visited' = tbdd_or(visited, newfront, vectordom)
    /\ iteration' = iteration + 1
    /\ levels' = Append(levels, <<visited', front'>>)
    /\ IF newfront # tbdd_false
       THEN pc' = loop /\ UNCHANGED states
       ELSE /\ states' = [states EXCEPT !.bdd = visited']
            /\ pc' = "returned"

BfsStart ==
    /\ pc = "ready" /\ strategy = 0
    /\ visited' = states.bdd
    /\ front' = states.bdd
    /\ iteration' = 1
    /\ pc' = "bfs"
    /\ tbdd_refs' = tbdd_refs_pushptr(tbdd_refs_pushptr(tbdd_refs, "visited"), "front")
    /\ UNCHANGED <<file, run, states, next, next_count, tasks, cache, depth,
                   levels, final>>

BfsLevel ==
    /\ pc = "bfs" /\ next_count >= 1
    /\ LevelDone(go_bfs(front, visited, 0, next_count), "bfs")
    /\ LET after == go_bfs_refs(tbdd_refs, 0, next_count)
       IN tbdd_refs' = IF front' # tbdd_false THEN after
                       ELSE tbdd_refs_popptr(after, 2)
    /\ UNCHANGED <<file, run, next, next_count, tasks, cache, depth, final>>

\* go_bfs(cur, visited, 0, 0) calls itself with len = 0 again, without end
BfsDiverge ==
    /\ pc = "bfs" /\ next_count = 0
    /\ IF depth < MaxDepth
       THEN depth' = depth + 1 /\ pc' = pc
       ELSE depth' = depth /\ pc' = "crashed"
    /\ UNCHANGED <<tbdd_refs, file, run, states, next, next_count, visited, front, iteration,
                   tasks, cache, levels, final>>

(***************************************************************************)
(* go_par and par.                                                         *)
(***************************************************************************)
go_par_frame(cur, vis, from, len) ==
    [fn |-> "go_par", pc |-> "start", cur |-> cur, visited |-> vis,
     from |-> from, len |-> len, right |-> tbdd_false, res |-> tbdd_false,
     refs |-> NoRefs]

\* a variant of go_par_leaf that keeps the successors already visited
go_par_leaf_all(cur, vis, from) ==
    tbdd_relnext(cur, next[from + 1].bdd, next[from + 1].variables, vectordom)

\* len == 1: the new successors of one group
go_par_leaf(cur, vis, from) ==
    LET succ == tbdd_relnext(cur, next[from + 1].bdd, next[from + 1].variables,
                             vectordom)
    IN tbdd_diff(succ, vis, vectordom)

\* a variant of go_par_merge that drops the result of the spawned half
go_par_merge_right(left, right) == right

\* merge results of left+right
go_par_merge(left, right) == tbdd_or(left, right, vectordom)

GoParEnter(p) ==
    /\ Live(p) /\ tasks[p].fn = "go_par" /\ tasks[p].pc = "start"
    /\ tasks[p].len >= 1
    /\ LET f == tasks[p]
       IN IF f.len = 1
          THEN tasks' = Put(tasks, p,
                   [f EXCEPT !.pc = "ret",
                             !.res = go_par_leaf(f.cur, f.visited, f.from),
                             !.refs = tbdd_refs_pop(tbdd_refs_push(@, "succ"), 1)])
          ELSE tasks' = Put(Put(Put(tasks, p,
                   [f EXCEPT !.pc = "call", !.refs = tbdd_refs_spawn(@)]),
                   Spawned(p), go_par_frame(f.cur, f.visited, f.from, f.len \div 2)),
                   Called(p), go_par_frame(f.cur, f.visited, f.from + f.len \div 2,
                                           f.len - f.len \div 2))
    /\ UNCHANGED <<tbdd_refs, file, run, pc, states, next, next_count, visited, front,
                   iteration, cache, depth, levels, final>>

\* a variant of GoParCalled that returns the result of the called half without
\* the SYNC
GoParCalled_return(p) ==
    /\ Live(p) /\ tasks[p].fn = "go_par" /\ tasks[p].pc = "call"
    /\ Returned(Called(p))
    /\ tasks' = Put(Without(tasks, {Called(p)}), p,
                    [tasks[p] EXCEPT !.pc = "ret", !.res = tasks[Called(p)].res])
    /\ UNCHANGED <<tbdd_refs, file, run, pc, states, next, next_count, visited, front,
                   iteration, cache, depth, levels, final>>

GoParCalled(p) ==
    /\ Live(p) /\ tasks[p].fn = "go_par" /\ tasks[p].pc = "call"
    /\ Returned(Called(p))
    /\ tasks' = Put(Without(tasks, {Called(p)}), p,
                    [tasks[p] EXCEPT !.pc = "sync", !.right = tasks[Called(p)].res,
                                     !.refs = tbdd_refs_push(@, "right")])
    /\ UNCHANGED <<tbdd_refs, file, run, pc, states, next, next_count, visited, front,
                   iteration, cache, depth, levels, final>>

GoParSync(p) ==
    /\ Live(p) /\ tasks[p].fn = "go_par" /\ tasks[p].pc = "sync"
    /\ Returned(Spawned(p))
    /\ tasks' = Put(Without(tasks, {Spawned(p)}), p,
                    [tasks[p] EXCEPT !.pc = "ret",
                        !.res = go_par_merge(tasks[Spawned(p)].res, tasks[p].right),
                        !.refs = tbdd_refs_pop(tbdd_refs_push(tbdd_refs_sync(@),
                                                              "left"), 2)])
    /\ UNCHANGED <<tbdd_refs, file, run, pc, states, next, next_count, visited, front,
                   iteration, cache, depth, levels, final>>

ParStart ==
    /\ pc = "ready" /\ strategy = 1
    /\ visited' = states.bdd
    /\ front' = states.bdd
    /\ iteration' = 1
    /\ pc' = "par"
    /\ tbdd_refs' = tbdd_refs_pushptr(tbdd_refs_pushptr(tbdd_refs, "visited"), "front")
    /\ UNCHANGED <<file, run, states, next, next_count, tasks, cache, depth,
                   levels, final>>

ParCall ==
    /\ pc = "par" /\ next_count >= 1
    /\ tasks' = Put(tasks, Root, go_par_frame(front, visited, 0, next_count))
    /\ pc' = "par_call"
    /\ UNCHANGED <<tbdd_refs, file, run, states, next, next_count, visited, front, iteration,
                   cache, depth, levels, final>>

ParLevel ==
    /\ pc = "par_call" /\ Returned(Root)
    /\ LevelDone(tasks[Root].res, "par")
    /\ tasks' = Without(tasks, {Root})
    /\ tbdd_refs' = IF front' # tbdd_false THEN tbdd_refs
                    ELSE tbdd_refs_popptr(tbdd_refs, 2)
    /\ UNCHANGED <<file, run, next, next_count, cache, depth, final>>

\* go_par(cur, visited, 0, 0) spawns and calls itself with len = 0, without end
ParDiverge ==
    /\ pc = "par" /\ next_count = 0
    /\ IF depth < MaxDepth
       THEN depth' = depth + 1 /\ pc' = pc
       ELSE depth' = depth /\ pc' = "crashed"
    /\ UNCHANGED <<tbdd_refs, file, run, states, next, next_count, visited, front, iteration,
                   tasks, cache, levels, final>>

(***************************************************************************)
(* go_sat and sat.  The operation cache is lossy: a lookup may miss an     *)
(* entry that was stored; it never invents one.                            *)
(***************************************************************************)
go_sat_frame(set, idx) ==
    [fn |-> "go_sat", pc |-> "start", set |-> set, idx |-> idx, key |-> set,
     prev |-> tbdd_false, n |-> 0, pivot_var |-> NoVar, high |-> tbdd_false,
     res |-> tbdd_false, refs |-> NoRefs]

cache_get3(set, idx) == {e[3] : e \in {c \in cache : c[1] = set /\ c[2] = idx}}
\* a variant of cache_put3 that ignores idx in the key
cache_put3_any_idx(set, idx, result) ==
    cache \cup {<<set, i, result>> : i \in 0..next_count}
cache_put3(set, idx, result) == cache \cup {<<set, idx, result>>}

set_var(set) == tbddnode_getvariable(set)
rel_var(idx) == tbdd_getvar(next[idx + 1].variables)
pivot_var(set, idx) ==
    LET set_tag == TBDD_GETTAG(set)
    IN IF set_tag < rel_var(idx) THEN set_tag
       ELSE IF set_var(set) < rel_var(idx) THEN set_var(set) ELSE rel_var(idx)

\* a variant of count_level that never looks at the next relation
count_level_one(idx, n) == n

\* the number of relations starting at rel_var(idx)
RECURSIVE count_level(_, _)
count_level(idx, n) ==
    IF (idx + n) < next_count /\ rel_var(idx) = tbdd_getvar(next[idx + n + 1].variables)
    THEN count_level(idx, n + 1)
    ELSE n

\* a variant of sat_chain that applies only the first relation of the level
sat_chain_first(set, idx, i, n) ==
    LET g == next[idx + 1]
    IN tbdd_or(set, tbdd_relnext(set, g.bdd, g.variables, g.satdom), g.satdom)

\* chain-apply all current level once
RECURSIVE sat_chain(_, _, _, _)
sat_chain(set, idx, i, n) ==
    IF i < n
    THEN LET g == next[idx + i + 1]
             step == tbdd_relnext(set, g.bdd, g.variables, g.satdom)
         IN sat_chain(tbdd_or(set, step, g.satdom), idx, i + 1, n)
    ELSE set

\* whether every relnext and or of that chain has its operands within satdom
RECURSIVE sat_chain_defined(_, _, _, _)
sat_chain_defined(set, idx, i, n) ==
    IF i < n
    THEN LET g == next[idx + i + 1]
             step == tbdd_relnext(set, g.bdd, g.variables, g.satdom)
         IN /\ InDomain(set, g.variables, g.satdom)
            /\ sat_chain_defined(tbdd_or(set, step, g.satdom), idx, i + 1, n)
    ELSE TRUE

\* a variant of GoSatTerminal that stores the terminal result in the cache
GoSatTerminal_stored(p) ==
    /\ Live(p) /\ tasks[p].fn = "go_sat" /\ tasks[p].pc = "start"
    /\ tasks[p].set = tbdd_false \/ tasks[p].idx = next_count
    /\ tasks' = Put(tasks, p, [tasks[p] EXCEPT !.pc = "ret",
                     !.res = IF tasks[p].set = tbdd_false THEN tbdd_false
                             ELSE tasks[p].set])
    /\ cache' = cache \cup {<<tasks[p].key, tasks[p].idx, tasks[p].set>>}
    /\ UNCHANGED <<tbdd_refs, file, run, pc, states, next, next_count, visited, front,
                   iteration, depth, levels, final>>

\* terminal cases
GoSatTerminal(p) ==
    /\ Live(p) /\ tasks[p].fn = "go_sat" /\ tasks[p].pc = "start"
    /\ tasks[p].set = tbdd_false \/ tasks[p].idx = next_count
    /\ tasks' = Put(tasks, p, [tasks[p] EXCEPT !.pc = "ret",
                     !.res = IF tasks[p].set = tbdd_false THEN tbdd_false
                             ELSE tasks[p].set])
    /\ UNCHANGED <<tbdd_refs, file, run, pc, states, next, next_count, visited, front,
                   iteration, cache, depth, levels, final>>

\* cache_get3 succeeds
GoSatHit(p) ==
    /\ Live(p) /\ tasks[p].fn = "go_sat" /\ tasks[p].pc = "start"
    /\ tasks[p].set # tbdd_false /\ tasks[p].idx # next_count
    /\ \E result \in cache_get3(tasks[p].key, tasks[p].idx) :
          tasks' = Put(tasks, p, [tasks[p] EXCEPT !.pc = "ret", !.res = result])
    /\ UNCHANGED <<tbdd_refs, file, run, pc, states, next, next_count, visited, front,
                   iteration, cache, depth, levels, final>>

\* cache_get3 fails: choose the pivot and branch
GoSatMiss(p) ==
    /\ Live(p) /\ tasks[p].fn = "go_sat" /\ tasks[p].pc = "start"
    /\ tasks[p].set # tbdd_false /\ tasks[p].idx # next_count
    /\ LET f == tasks[p]
           pivot == pivot_var(f.set, f.idx)
       IN IF pivot = rel_var(f.idx)
          THEN tasks' = Put(tasks, p,
                   [f EXCEPT !.pc = "loop", !.pivot_var = pivot,
                             !.n = count_level(f.idx, 1), !.prev = tbdd_false,
                             !.refs = tbdd_refs_pushptr(tbdd_refs_pushptr(
                                 tbdd_refs_pushptr(tbdd_refs_pushptr(@, "_set"),
                                 "set"), "prev"), "step")])
          ELSE IF pivot < set_var(f.set)
          THEN tasks' = Put(Put(tasks, p,
                   [f EXCEPT !.pc = "skip", !.pivot_var = pivot,
                             !.refs = tbdd_refs_pushptr(@, "_set")]),
                   Called(p), go_sat_frame(tbdd_settag(f.set, pivot + 2), f.idx))
          ELSE tasks' = Put(Put(Put(tasks, p,
                   [f EXCEPT !.pc = "call", !.pivot_var = pivot,
                             !.refs = tbdd_refs_spawn(tbdd_refs_pushptr(@, "_set"))]),
                   Spawned(p), go_sat_frame(tbddnode_low(f.set, pivot), f.idx)),
                   Called(p), go_sat_frame(tbddnode_high(f.set, pivot), f.idx))
    /\ UNCHANGED <<tbdd_refs, file, run, pc, states, next, next_count, visited, front,
                   iteration, cache, depth, levels, final>>

\* a variant of GoSatLoop that stores the result under the set grown in the loop
GoSatLoop_grown_key(p) ==
    /\ Live(p) /\ tasks[p].fn = "go_sat" /\ tasks[p].pc = "loop"
    /\ LET f == tasks[p]
       IN IF f.prev # f.set
          THEN /\ tasks' = Put(Put(tasks, p, [f EXCEPT !.pc = "deeper", !.prev = f.set]),
                       Called(p), go_sat_frame(f.set, f.idx + f.n))
               /\ cache' = cache
          ELSE /\ tasks' = Put(tasks, p,
                       [f EXCEPT !.pc = "ret", !.res = f.set,
                                 !.refs = tbdd_refs_popptr(tbdd_refs_popptr(@, 3), 1)])
               /\ cache' = cache_put3(f.set, f.idx, f.set)
    /\ UNCHANGED <<tbdd_refs, file, run, pc, states, next, next_count, visited, front,
                   iteration, depth, levels, final>>

\* while (prev != set): SAT deeper, or leave the loop and store in cache
GoSatLoop(p) ==
    /\ Live(p) /\ tasks[p].fn = "go_sat" /\ tasks[p].pc = "loop"
    /\ LET f == tasks[p]
       IN IF f.prev # f.set
          THEN /\ tasks' = Put(Put(tasks, p, [f EXCEPT !.pc = "deeper", !.prev = f.set]),
                       Called(p), go_sat_frame(f.set, f.idx + f.n))
               /\ cache' = cache
          ELSE /\ tasks' = Put(tasks, p,
                       [f EXCEPT !.pc = "ret", !.res = f.set,
                                 !.refs = tbdd_refs_popptr(tbdd_refs_popptr(@, 3), 1)])
               /\ cache' = cache_put3(f.key, f.idx, f.set)
    /\ UNCHANGED <<tbdd_refs, file, run, pc, states, next, next_count, visited, front,
                   iteration, depth, levels, final>>

\* the deeper call has returned: chain-apply all current level once
GoSatApply(p) ==
    /\ Live(p) /\ tasks[p].fn = "go_sat" /\ tasks[p].pc = "deeper"
    /\ Returned(Called(p))
    /\ sat_chain_defined(tasks[Called(p)].res, tasks[p].idx, 0, tasks[p].n)
    /\ tasks' = Put(Without(tasks, {Called(p)}), p,
                    [tasks[p] EXCEPT !.pc = "loop",
                        !.set = sat_chain(tasks[Called(p)].res, tasks[p].idx, 0,
                                          tasks[p].n)])
    /\ UNCHANGED <<tbdd_refs, file, run, pc, states, next, next_count, visited, front,
                   iteration, cache, depth, levels, final>>

\* the same with a relation that has variables outside satdom: no result of
\* the diagram package can be relied on from here; the run ends with any set
\* as its result, or the process dies
GoSatUndefined(p) ==
    /\ Live(p) /\ tasks[p].fn = "go_sat" /\ tasks[p].pc = "deeper"
    /\ Returned(Called(p))
    /\ ~sat_chain_defined(tasks[Called(p)].res, tasks[p].idx, 0, tasks[p].n)
    /\ \/ /\ \E any \in SUBSET StateSpace : states' = [states EXCEPT !.bdd = any]
          /\ pc' = "returned"
       \/ /\ states' = states
          /\ pc' = "crashed"
    /\ tasks' = <<>>
    /\ UNCHANGED <<tbdd_refs, file, run, next, next_count, visited, front,
                   iteration, cache, depth, levels, final>>

\* pivot_var < set_var: the skipped variable is 0 in every state of the set
GoSatSkipped(p) ==
    /\ Live(p) /\ tasks[p].fn = "go_sat" /\ tasks[p].pc = "skip"
    /\ Returned(Called(p))
    /\ LET f == tasks[p]
           result == tbdd_makenode(f.pivot_var, tasks[Called(p)].res, tbdd_false,
                                   f.pivot_var + 2)
       IN /\ tasks' = Put(Without(tasks, {Called(p)}), p,
                          [f EXCEPT !.pc = "ret", !.res = result,
                                    !.refs = tbdd_refs_popptr(@, 1)])
          /\ cache' = cache_put3(f.key, f.idx, result)
    /\ UNCHANGED <<tbdd_refs, file, run, pc, states, next, next_count, visited, front,
                   iteration, depth, levels, final>>

\* a variant of GoSatCalled that does not push the result of the CALL
GoSatCalled_unpushed(p) ==
    /\ Live(p) /\ tasks[p].fn = "go_sat" /\ tasks[p].pc = "call"
    /\ Returned(Called(p))
    /\ tasks' = Put(Without(tasks, {Called(p)}), p,
                    [tasks[p] EXCEPT !.pc = "sync", !.high = tasks[Called(p)].res])
    /\ UNCHANGED <<tbdd_refs, file, run, pc, states, next, next_count, visited, front,
                   iteration, cache, depth, levels, final>>

\* the CALL on the high cofactor has returned
GoSatCalled(p) ==
    /\ Live(p) /\ tasks[p].fn = "go_sat" /\ tasks[p].pc = "call"
    /\ Returned(Called(p))
    /\ tasks' = Put(Without(tasks, {Called(p)}), p,
                    [tasks[p] EXCEPT !.pc = "sync", !.high = tasks[Called(p)].res,
                                     !.refs = tbdd_refs_push(@, "high")])
    /\ UNCHANGED <<tbdd_refs, file, run, pc, states, next, next_count, visited, front,
                   iteration, cache, depth, levels, final>>

\* a variant of GoSatSync that unites the two results instead of making a
\* node at the pivot variable
GoSatSync_union(p) ==
    /\ Live(p) /\ tasks[p].fn = "go_sat" /\ tasks[p].pc = "sync"
    /\ Returned(Spawned(p))
    /\ LET f == tasks[p]
           result == tbdd_or(tasks[Spawned(p)].res, f.high, vectordom)
       IN /\ tasks' = Put(Without(tasks, {Spawned(p)}), p,
                          [f EXCEPT !.pc = "ret", !.res = result,
                                    !.refs = tbdd_refs_popptr(tbdd_refs_pop(
                                                 tbdd_refs_sync(@), 1), 1)])
          /\ cache' = cache_put3(f.key, f.idx, result)
    /\ UNCHANGED <<tbdd_refs, file, run, pc, states, next, next_count, visited, front,
                   iteration, depth, levels, final>>

\* SYNC on the low cofactor; make the node and store in cache
GoSatSync(p) ==
    /\ Live(p) /\ tasks[p].fn = "go_sat" /\ tasks[p].pc = "sync"
    /\ Returned(Spawned(p))
    /\ LET f == tasks[p]
           result == tbdd_makenode(f.pivot_var, tasks[Spawned(p)].res, f.high,
                                   f.pivot_var + 2)
       IN /\ tasks' = Put(Without(tasks, {Spawned(p)}), p,
                          [f EXCEPT !.pc = "ret", !.res = result,
                                    !.refs = tbdd_refs_popptr(tbdd_refs_pop(
                                                 tbdd_refs_sync(@), 1), 1)])
          /\ cache' = cache_put3(f.key, f.idx, result)
    /\ UNCHANGED <<tbdd_refs, file, run, pc, states, next, next_count, visited, front,
                   iteration, depth, levels, final>>

SatStart ==
    /\ pc = "ready" /\ strategy = 2
    /\ tasks' = Put(tasks, Root, go_sat_frame(states.bdd, 0))
    /\ pc' = "sat"
    /\ UNCHANGED <<tbdd_refs, file, run, states, next, next_count, visited, front, iteration,
                   cache, depth, levels, final>>

\* a variant of SatReturn that declares the result over the tail domain of
\* the first group
SatReturn_redeclared ==
    /\ pc = "sat" /\ Returned(Root)
    /\ states' = [bdd |-> tasks[Root].res,
                  variables |-> IF next_count >= 1 THEN next[1].satdom
                                ELSE states.variables]
    /\ tasks' = Without(tasks, {Root})
    /\ pc' = "returned"
    /\ UNCHANGED <<tbdd_refs, file, run, next, next_count, visited, front, iteration,
                   cache, depth, levels, final>>

SatReturn ==
    /\ pc = "sat" /\ Returned(Root)
    /\ states' = [states EXCEPT !.bdd = tasks[Root].res]
    /\ tasks' = Without(tasks, {Root})
    /\ pc' = "returned"
    /\ UNCHANGED <<tbdd_refs, file, run, next, next_count, visited, front, iteration,
                   cache, depth, levels, final>>

(***************************************************************************)
(* chaining.                                                               *)
(***************************************************************************)
\* a variant of chain_groups that applies every group to the next_level the
\* iteration started with
chain_groups_unchained(next_level, i) ==
    next_level \cup UNION {tbdd_relnext(next_level, next[j + 1].bdd,
                                        next[j + 1].variables, vectordom) :
                              j \in i..(next_count - 1)}

\* a variant of chain_groups that keeps only the successors of the last group
chain_groups_last(next_level, i) ==
    IF next_count = 0 THEN next_level
    ELSE tbdd_relnext(next_level, next[next_count].bdd, next[next_count].variables,
                      vectordom)

RECURSIVE chain_groups(_, _)
chain_groups(next_level, i) ==
    IF i < next_count
    THEN LET succ == tbdd_relnext(next_level, next[i + 1].bdd, next[i + 1].variables,
                                  vectordom)
         IN chain_groups(tbdd_or(next_level, succ, vectordom), i + 1)
    ELSE next_level

ChainingStart ==
    /\ pc = "ready" /\ strategy = 3
    /\ visited' = states.bdd
    /\ front' = states.bdd
    /\ iteration' = 1
    /\ pc' = "chaining"
    /\ tbdd_refs' = tbdd_refs_pushptr(tbdd_refs_pushptr(tbdd_refs_pushptr(
                         tbdd_refs, "visited"), "next_level"), "succ")
    /\ UNCHANGED <<file, run, states, next, next_count, tasks, cache, depth,
                   levels, final>>

ChainingLevel ==
    /\ pc = "chaining"
    /\ LET next_level == tbdd_diff(chain_groups(front, 0), visited, vectordom)
       IN /\ front' = next_level
          /\ visited' = tbdd_or(visited, next_level, vectordom)
    /\ iteration' = iteration + 1
    /\ levels' = Append(levels, <<visited', front'>>)
    /\ IF front' # tbdd_false
       THEN UNCHANGED <<pc, states>>
       ELSE /\ states' = [states EXCEPT !.bdd = visited']
            /\ pc' = "returned"
    /\ tbdd_refs' = IF front' # tbdd_false THEN tbdd_refs
                    ELSE tbdd_refs_popptr(tbdd_refs, 3)
    /\ UNCHANGED <<file, run, next, next_count, tasks, cache, depth, final>>

\* whether every group's satdom holds the group's variables, as go_sat needs
TailDomainsOK ==
    \A i \in 1..next_count : BitsOf(next[i].variables) \subseteq BitsOf(next[i].satdom)

(***************************************************************************)
(* main, lines 848-858: report the final state count and exit; then the    *)
(* program is run again with the next configuration.                       *)
(***************************************************************************)
Report ==
    /\ pc = "returned"
    /\ final' = [final EXCEPT ![run] =
                    [bdd |-> states.bdd,
                     count |-> tbdd_satcount(states.bdd, states.variables),
                     levels |-> levels,
                     defined |-> strategy = 2 => TailDomainsOK]]
    /\ pc' = "done"
    /\ UNCHANGED <<tbdd_refs, file, run, states, next, next_count, visited, front, iteration,
                   tasks, cache, depth, levels>>

Rerun ==
    /\ pc \in {"done", "aborted", "crashed"}
    /\ run < Len(Configs)
    /\ run' = run + 1
    /\ pc' = "start"
    /\ states' = NoSet
    /\ next' = <<>>
    /\ next_count' = 0
    /\ visited' = tbdd_false
    /\ front' = tbdd_false
    /\ iteration' = 0
    /\ tasks' = <<>>
    /\ cache' = {}
    /\ depth' = 0
    /\ levels' = <<>>
    /\ tbdd_refs' = NoRefs
    /\ UNCHANGED <<file, final>>

Next ==
    \/ Load
    \/ Sort
    \/ MergeExtend
    \/ \E p \in DOMAIN tasks : BigUnionEnter(p)
    \/ \E p \in DOMAIN tasks : BigUnionCalled(p)
    \/ \E p \in DOMAIN tasks : BigUnionSync(p)
    \/ MergeDiverge
    \/ MergeDone
    \/ BfsStart
    \/ BfsLevel
    \/ BfsDiverge
    \/ ParStart
    \/ ParCall
    \/ \E p \in DOMAIN tasks : GoParEnter(p)
    \/ \E p \in DOMAIN tasks : GoParCalled(p)
    \/ \E p \in DOMAIN tasks : GoParSync(p)
    \/ ParLevel
    \/ ParDiverge
    \/ SatStart
    \/ \E p \in DOMAIN tasks : GoSatTerminal(p)
    \/ \E p \in DOMAIN tasks : GoSatHit(p)
    \/ \E p \in DOMAIN tasks : GoSatMiss(p)
    \/ \E p \in DOMAIN tasks : GoSatLoop(p)
    \/ \E p \in DOMAIN tasks : GoSatApply(p)
    \/ \E p \in DOMAIN tasks : GoSatUndefined(p)
    \/ \E p \in DOMAIN tasks : GoSatSkipped(p)
    \/ \E p \in DOMAIN tasks : GoSatCalled(p)
    \/ \E p \in DOMAIN tasks : GoSatSync(p)
    \/ SatReturn
    \/ ChainingStart
    \/ ChainingLevel
    \/ Report
    \/ Rerun

\* the process keeps running while it has a step to take
FairSpec == Init /\ [][Next]_vars /\ WF_vars(Next)

Spec == Init /\ [][Next]_vars

(***************************************************************************)
(* Loading alone, on files of MaxComponents components of one or two bits  *)
(* each, with one group whose read and write projections are any ascending *)
(* selections of the components (at least one index between them: the top  *)
(* variable is read from all_vars[0]).                                     *)
(***************************************************************************)
MaxComponents == 3
Ascending(q) == \A i \in 1..(Len(q) - 1) : q[i] < q[i + 1]
Projections ==
    {q \in UNION {[1..n -> 0..(MaxComponents - 1)] : n \in 0..MaxComponents} :
        Ascending(q)}
Widths == [1..MaxComponents -> 1..2]
ProjFiles ==
    {[statebits |-> sb, k |-> -1, proj |-> <<>>,
      bdd |-> {[i \in 1..SumSeq(sb) |-> 0]},
      groups |-> <<[r_proj |-> r, w_proj |-> w, bdd |-> tbdd_false]>>,
      complete |-> TRUE] :
        sb \in Widths, r \in Projections, w \in {q \in Projections : Len(q) > 0}}
    \cup
    {[statebits |-> sb, k |-> -1, proj |-> <<>>,
      bdd |-> {[i \in 1..SumSeq(sb) |-> 0]},
      groups |-> <<[r_proj |-> r, w_proj |-> <<>>, bdd |-> tbdd_false]>>,
      complete |-> TRUE] :
        sb \in Widths, r \in {q \in Projections : Len(q) > 0}}

LoadInit ==
    /\ file \in ProjFiles
    /\ run = 1
    /\ final = [c \in 1..Len(Configs) |-> None]
    /\ Fresh

LoadNext ==
    \/ Load
    \/ Sort

LoadSpec == LoadInit /\ [][LoadNext]_vars

(***************************************************************************)
(* Reference definitions for the properties: the transitions of a file's   *)
(* groups on whole state vectors, and the states reachable by them.        *)
(***************************************************************************)
Range(q) == {q[i] : i \in DOMAIN q}
CompBits(c) ==
    LET base == SumSeq(SubSeq(statebits, 1, c))
    IN {base + x : x \in 0..(statebits[c + 1] - 1)}
GroupBits(g) ==
    UNION {CompBits(c) : c \in (Range(g.r_proj) \cup Range(g.w_proj))
                                   \cap (0..(vectorsize - 1))}
Step(s, t, g) ==
    /\ <<Restrict(s, GroupBits(g)), Restrict(t, GroupBits(g))>> \in g.bdd
    /\ \A b \in (0..(totalbits - 1)) \ GroupBits(g) : t[b + 1] = s[b + 1]
Successors(S) ==
    {t \in StateSpace : \E s \in S : \E i \in 1..Len(file.groups) :
        Step(s, t, file.groups[i])}
RECURSIVE ReachFrom(_)
ReachFrom(S) ==
    LET T == S \cup Successors(S)
    IN IF T = S THEN S ELSE ReachFrom(T)
Reachable == ReachFrom(file.bdd)

Unmerged == {c \in 1..Len(Configs) : ~Configs[c].merge_relations}
Ended(c) == final[c] # None

\* C1: when a strategy has returned on a well-formed file, the set it leaves
\* in states is exactly the set of states reachable from the initial set by
\* zero or more transitions of any group: no reachable state is missing and no
\* unreachable state is included (for sat, with tail domains that hold the
\* groups' variables).
C1_ReachableExactly ==
    (pc \in {"returned", "done"} /\ WellFormed /\ (strategy = 2 => TailDomainsOK))
        => states.bdd = Reachable

\* sat has returned on a three-bit file whose reachable set is larger than
\* its initial set and smaller than the state space
C1_Witness ==
    /\ pc = "returned" /\ strategy = 2 /\ WellFormed /\ TailDomainsOK
    /\ totalbits = 3 /\ Len(file.groups) = 2
    /\ Cardinality(states.bdd) > Cardinality(file.bdd)
    /\ states.bdd # StateSpace

\* C2: on a well-formed file bfs, par, sat and chaining end with the same
\* set and the same state count, also when the groups form cycles.
C2_StrategiesAgree ==
    WellFormed =>
        \A c, d \in Unmerged : (Ended(c) /\ Ended(d)) =>
            /\ final[c].bdd = final[d].bdd
            /\ final[c].count = final[d].count

\* all four strategies have ended on a file whose groups B and D form a cycle
C2_Witness ==
    /\ \A c \in Unmerged : Ended(c)
    /\ file.groups = <<GroupB, GroupD>>
    /\ file.bdd = {<<0, 1>>, <<1, 1>>}
    /\ final[1].count = 2

\* C3: for two one-bit components, initial state (0,0), group A setting c0
\* from 0 to 1 and group B setting c1 to 1 when c0 is 1, every strategy ends
\* with exactly {(0,0), (1,0), (1,1)} and reports 3 states.
C3_Scenario ==
    file = ScenarioFile =>
        \A c \in 1..Len(Configs) : Ended(c) =>
            /\ final[c].bdd = {<<0, 0>>, <<1, 0>>, <<1, 1>>}
            /\ final[c].count = 3

\* the four strategies have ended on the scenario file
C3_Witness ==
    /\ file = ScenarioFile
    /\ \A c \in Unmerged : Ended(c) /\ final[c].count = 3

\* C4: on every finite-state file every strategy terminates: a run that has
\* reached its strategy (here on the groups as loaded) eventually returns
\* from it.
C4_Terminates ==
    \A c \in Unmerged :
        (run = c /\ pc = "ready" /\ WellFormed) ~> (run = c /\ pc = "returned")

\* C5: a strategy run after the merge step ends with the same set as the same
\* strategy run on the unmerged groups of the same file.
C5_MergeAgrees ==
    WellFormed =>
        \A c, d \in 1..Len(Configs) :
            (/\ Configs[c].strategy = Configs[d].strategy
             /\ ~Configs[c].merge_relations /\ Configs[d].merge_relations
             /\ Ended(c) /\ Ended(d))
                => final[c].bdd = final[d].bdd

\* C6: in bfs, par and chaining the visited set never shrinks from one
\* iteration to the next, and it is unchanged exactly in the final iteration,
\* the one whose new frontier is empty.
LevelStep == pc \in {"bfs", "par_call", "chaining"} /\ iteration' = iteration + 1
C6_VisitedGrows ==
    [][LevelStep => /\ visited \subseteq visited'
                    /\ (visited' = visited) <=> (front' = tbdd_false)
                    /\ (front' = tbdd_false) <=> (pc' = "returned")]_vars

\* a level loop has returned after two growing iterations and the final one
C6_Witness ==
    /\ pc = "returned" /\ strategy \in {0, 1, 3}
    /\ Len(levels) >= 3
    /\ Cardinality(visited) >= 3
    /\ front = tbdd_false

\* C7: go_par returns the same set as go_bfs for the same frontier, visited
\* set and group range, whatever the interleaving of its subtasks, and par
\* goes through the same levels (as many, with the same sets) as bfs.
C7_ParIsBfs ==
    /\ \A p \in DOMAIN tasks :
          (tasks[p].fn = "go_par" /\ tasks[p].pc = "ret") =>
              tasks[p].res = go_bfs(tasks[p].cur, tasks[p].visited,
                                    tasks[p].from, tasks[p].len)
    /\ \A c, d \in 1..Len(Configs) :
          (/\ Configs[c].strategy = 0 /\ Configs[d].strategy = 1
           /\ Configs[c].merge_relations = Configs[d].merge_relations
           /\ Ended(c) /\ Ended(d))
              => final[c].levels = final[d].levels

\* a go_par over two groups has joined both halves, the called half having
\* found new states, in a par run after bfs ended on the same file
C7_Witness ==
    /\ pc = "par_call" /\ Returned(Root)
    /\ tasks[Root].len = 2
    /\ tasks[Root].right # tbdd_false
    /\ tasks[Root].res # tasks[Root].right
    /\ iteration >= 2
    /\ Ended(3)

\* the states added to S by the groups idx.. of the sorted array, to fixpoint
Image(S, j) == tbdd_relnext(S, next[j + 1].bdd, next[j + 1].variables, vectordom)
RECURSIVE LevelClosure(_, _)
LevelClosure(S, idx) ==
    LET T == S \cup UNION {Image(S, j) : j \in idx..(next_count - 1)}
    IN IF T = S THEN S ELSE LevelClosure(T, idx)

\* C8: go_sat is a function of its arguments whatever the scheduling: every
\* value stored in the cache under a key, and every value a task returns for
\* that key (computed, taken from the cache, or computed again by a
\* concurrent identical call), is the one set determined by the key.
C8_CacheConsistent ==
    (strategy = 2 /\ TailDomainsOK) =>
        /\ \A e \in cache : e[3] = LevelClosure(e[1], e[2])
        /\ \A p \in DOMAIN tasks :
              (tasks[p].fn = "go_sat" /\ tasks[p].pc = "ret") =>
                  tasks[p].res = LevelClosure(tasks[p].key, tasks[p].idx)
        /\ pc = "returned" => states.bdd = LevelClosure(set_load(file).bdd, 0)

\* two identical calls are live at once: one has returned and stored its
\* result, the other missed the cache and is still in its loop
C8_Witness ==
    /\ strategy = 2 /\ TailDomainsOK
    /\ \E p, q \in DOMAIN tasks :
          /\ p # q
          /\ tasks[p].fn = "go_sat" /\ tasks[q].fn = "go_sat"
          /\ tasks[p].key = tasks[q].key /\ tasks[p].idx = tasks[q].idx
          /\ tasks[p].idx # next_count /\ tasks[p].key # tbdd_false
          /\ tasks[p].pc = "ret" /\ tasks[q].pc \in {"loop", "deeper"}
          /\ cache_get3(tasks[p].key, tasks[p].idx) = {tasks[p].res}
          /\ tasks[p].res # tasks[p].key

\* C9: loading aborts, and no strategy is run, when the projection of the
\* initial set or a read or write projection of a group names a component
\* outside 0..vectorsize-1.
ProjectionsInRange ==
    /\ InRange(file.proj)
    /\ \A i \in 1..Len(file.groups) :
          InRange(file.groups[i].r_proj) /\ InRange(file.groups[i].w_proj)
C9_LoadAborts ==
    ~ProjectionsInRange => pc \in {"start", "aborted"}

\* C10: where the pivot is the top variable of group idx, go_sat takes the n
\* consecutive groups starting at idx that share this top variable and
\* repeats "recurse on idx+n, then apply each of the n groups once" until a
\* pass changes nothing; the running set never shrinks, and the set at exit
\* is the least set that contains the input and is closed under the n groups
\* and under everything the deeper call adds.
Closed(T, idx) == \A j \in idx..(next_count - 1) : Image(T, j) \subseteq T
C10_LevelFixpoint ==
    (strategy = 2 /\ TailDomainsOK) =>
        \A p \in DOMAIN tasks :
            (tasks[p].fn = "go_sat" /\ tasks[p].pc \in {"loop", "deeper"}) =>
                LET f == tasks[p]
                IN /\ f.pivot_var = rel_var(f.idx)
                   /\ f.n >= 1 /\ f.idx + f.n <= next_count
                   /\ \A j \in f.idx..(f.idx + f.n - 1) : rel_var(j) = rel_var(f.idx)
                   /\ f.idx + f.n < next_count => rel_var(f.idx + f.n) # rel_var(f.idx)
                   /\ f.key \subseteq f.set
                   /\ f.prev \subseteq f.set
                   /\ (f.pc = "deeper" /\ Returned(Called(p))) =>
                         /\ f.set \subseteq tasks[Called(p)].res
                         /\ f.set \subseteq sat_chain(tasks[Called(p)].res, f.idx, 0, f.n)
                   /\ (f.pc = "loop" /\ f.prev = f.set) =>
                         /\ Closed(f.set, f.idx)
                         /\ \A T \in SUBSET StateSpace :
                               (f.key \subseteq T /\ Closed(T, f.idx)) => f.set \subseteq T

\* a loop over two groups with the same top variable, with a deeper group
\* below them, is at its exit with a set larger than its input
C10_Witness ==
    /\ strategy = 2 /\ TailDomainsOK
    /\ \E p \in DOMAIN tasks :
          /\ tasks[p].idx + 2 < next_count
          /\ tasks[p].fn = "go_sat" /\ tasks[p].pc = "loop"
          /\ tasks[p].prev = tasks[p].set
          /\ tasks[p].n = 2
          /\ Cardinality(tasks[p].set) >= Cardinality(tasks[p].key) + 2

\* C11: when the pivot of go_sat(set, idx) is above the top variable of group
\* idx, the pivot bit of every state is left as it is: the states of the
\* result with pivot bit x are exactly the states with pivot bit x of go_sat
\* applied with the same idx to the input's cofactor for x (the low cofactor
\* in a spawned task, the high cofactor in a called task, both joined), and
\* in the skipped-variable case, where no input state has the pivot bit set,
\* no state of the result has it set.
WithBit(S, b, x) == {s \in S : s[b + 1] = x}
AbovePivot(f) == f.pivot_var # NoVar /\ f.pivot_var < rel_var(f.idx)
C11_PivotFrame ==
    strategy = 2 =>
        \A p \in DOMAIN tasks :
            (tasks[p].fn = "go_sat" /\ AbovePivot(tasks[p])) =>
                LET f == tasks[p]
                    b == f.pivot_var \div 2
                IN /\ f.pc \in {"skip", "call", "sync", "ret"}
                   /\ f.pc = "skip" =>
                         /\ WithBit(f.key, b, 1) = {}
                         /\ Live(Called(p)) /\ ~Live(Spawned(p))
                         /\ tasks[Called(p)].key = tbddnode_low(f.key, f.pivot_var)
                         /\ tasks[Called(p)].idx = f.idx
                   /\ f.pc = "call" =>
                         /\ Live(Spawned(p)) /\ Live(Called(p))
                         /\ tasks[Spawned(p)].key = tbddnode_low(f.key, f.pivot_var)
                         /\ tasks[Called(p)].key = tbddnode_high(f.key, f.pivot_var)
                         /\ tasks[Spawned(p)].idx = f.idx /\ tasks[Called(p)].idx = f.idx
                   /\ f.pc = "sync" =>
                         /\ Live(Spawned(p)) /\ ~Live(Called(p))
                         /\ f.high = LevelClosure(tbddnode_high(f.key, f.pivot_var), f.idx)
                   /\ f.pc = "ret" =>
                         /\ ~Live(Spawned(p)) /\ ~Live(Called(p))
                         /\ \A x \in Bit :
                               /\ WithBit(f.res, b, x) =
                                     WithBit(LevelClosure(IF x = 0
                                         THEN tbddnode_low(f.key, f.pivot_var)
                                         ELSE tbddnode_high(f.key, f.pivot_var), f.idx), b, x)
                               /\ WithBit(f.res, b, x) =
                                     LevelClosure(WithBit(f.key, b, x), f.idx)
                         /\ WithBit(f.key, b, 1) = {} => WithBit(f.res, b, 1) = {}

\* a call has joined its two cofactor branches, both non-empty, and its
\* result has more states than its input
C11_Witness ==
    /\ strategy = 2
    /\ \E p \in DOMAIN tasks :
          /\ tasks[p].fn = "go_sat" /\ tasks[p].pc = "ret" /\ AbovePivot(tasks[p])
          /\ WithBit(tasks[p].key, tasks[p].pivot_var \div 2, 0) # {}
          /\ WithBit(tasks[p].key, tasks[p].pivot_var \div 2, 1) # {}
          /\ tasks[p].res # tasks[p].key

\* C12: every non-terminal go_sat call looks up the key (its original input
\* set, idx) first; on a hit it returns a value stored under that key without
\* creating any task or touching the cache; on a miss it stores its result
\* under that same key (the original input set, not the set grown in the
\* fixpoint loop) in the step in which it returns; nothing else changes the
\* cache, and the key of a call never changes.
NonTerminal(f) == f.fn = "go_sat" /\ f.set # tbdd_false /\ f.idx # next_count
C12_CacheKeying ==
    [][/\ \A p \in (DOMAIN tasks) \cap (DOMAIN tasks') :
             (tasks[p].fn = "go_sat" /\ tasks[p].pc # "ret") =>
                 LET f == tasks[p]
                     g == tasks'[p]
                 IN /\ g.key = f.key /\ g.idx = f.idx
                    /\ f.pc = "start" => f.key = f.set
                    /\ (f.pc = "start" /\ g.pc = "ret" /\ NonTerminal(f)) =>
                          /\ g.res \in {e[3] : e \in {c \in cache :
                                                   c[1] = f.key /\ c[2] = f.idx}}
                          /\ DOMAIN tasks' = DOMAIN tasks
                          /\ cache' = cache
                    /\ (f.pc # "start" /\ g.pc = "ret") =>
                          cache' = cache \cup {<<f.key, f.idx, g.res>>}
       /\ (cache' # cache /\ run' = run) =>
             \E p \in (DOMAIN tasks) \cap (DOMAIN tasks') :
                 /\ NonTerminal(tasks[p])
                 /\ tasks[p].pc \notin {"start", "ret"} /\ tasks'[p].pc = "ret"
                 /\ cache' = cache \cup {<<tasks[p].key, tasks[p].idx, tasks'[p].res>>}]_vars

\* a call has returned on a cache hit (it has chosen no pivot) with a result,
\* stored under its input set, that is larger than this input set
C12_Witness ==
    \E p \in DOMAIN tasks :
        /\ NonTerminal(tasks[p]) /\ tasks[p].pc = "ret"
        /\ tasks[p].pivot_var = NoVar
        /\ tasks[p].res # tasks[p].key
        /\ <<tasks[p].key, tasks[p].idx, tasks[p].res>> \in cache

\* C13: go_sat returns the empty set for an empty input set, for every idx,
\* and returns its input set when idx equals next_count; a terminal call
\* returns in one step that creates no task, leaves the cache as it is and
\* pushes nothing on the reference stacks, and the cache holds no entry for
\* a terminal call.
Terminal(f) == f.fn = "go_sat" /\ (f.set = tbdd_false \/ f.idx = next_count)
C13_TerminalCases ==
    /\ [](/\ \A p \in DOMAIN tasks :
                (Terminal(tasks[p]) /\ tasks[p].pc = "ret") =>
                    /\ tasks[p].set = tbdd_false => tasks[p].res = tbdd_false
                    /\ tasks[p].set # tbdd_false => tasks[p].res = tasks[p].key
                    /\ tasks[p].set = tasks[p].key
                    /\ tasks[p].refs = NoRefs
          /\ \A e \in cache : e[1] # tbdd_false /\ e[2] # next_count)
    /\ [][\A p \in (DOMAIN tasks) \cap (DOMAIN tasks') :
             (Terminal(tasks[p]) /\ tasks[p].pc = "start") =>
                 /\ tasks'[p].pc \in {"start", "ret"}
                 /\ tasks'[p].refs = tasks[p].refs /\ tasks[p].refs = NoRefs
                 /\ tasks'[p].pc = "ret" =>
                       /\ cache' = cache
                       /\ DOMAIN tasks' = DOMAIN tasks]_vars

\* two terminal calls have returned while the cache holds entries: one on an
\* empty set with groups left to apply, one on a non-empty set with
\* idx = next_count
C13_Witness ==
    /\ cache # {}
    /\ \E p, q \in DOMAIN tasks :
          /\ Terminal(tasks[p]) /\ tasks[p].pc = "ret"
          /\ tasks[p].set = tbdd_false /\ tasks[p].idx < next_count
          /\ Terminal(tasks[q]) /\ tasks[q].pc = "ret"
          /\ tasks[q].set # tbdd_false /\ tasks[q].res = tasks[q].set

\* C14 (as stated): each group's tail domain is exactly the current-state
\* variables 2i for i from the group's topmost bit to totalbits-1, and in
\* every call go_sat(set, idx) on sorted groups the tag of the set is at most
\* the top variable of group idx.
TailFrom(top) == [k \in 1..(totalbits - top) |-> 2 * (top + k - 1)]
TailDomainsExact ==
    \A i \in 1..next_count :
        next[i].satdom = TailFrom(tbdd_getvar(next[i].variables) \div 2)
C14_TagAtMostTop ==
    (strategy = 2 /\ ~merge_relations) =>
        /\ TailDomainsExact
        /\ \A p \in DOMAIN tasks :
              NonTerminal(tasks[p]) =>
                  TBDD_GETTAG(tasks[p].key) <= rel_var(tasks[p].idx)

\* C14 (amended): each group's tail domain is exactly the current-state
\* variables from the group's topmost bit on; in every non-terminal call the
\* pivot is the smaller of the set's tag and the top variable of group idx,
\* and the relations of a level are applied only when the tag of the set is at
\* least that top variable, so only to sets that depend on no variable outside
\* the tail domain of each group applied.
C14_TailDomain ==
    (strategy = 2 /\ ~merge_relations) =>
        /\ TailDomainsExact
        /\ \A p \in DOMAIN tasks :
              NonTerminal(tasks[p]) =>
                  LET f == tasks[p]
                      tag == TBDD_GETTAG(f.key)
                  IN /\ pivot_var(f.key, f.idx) =
                           (IF tag < rel_var(f.idx) THEN tag ELSE rel_var(f.idx))
                     /\ f.pc \in {"loop", "deeper"} =>
                           /\ tag >= rel_var(f.idx)
                           /\ TBDD_GETTAG(f.set) >= rel_var(f.idx)
                           /\ \A i \in 0..(f.n - 1) :
                                 /\ next[f.idx + i + 1].satdom =
                                       TailFrom(rel_var(f.idx) \div 2)
                                 /\ Support(f.set) \subseteq
                                       BitsOf(next[f.idx + i + 1].satdom)
                     /\ (f.pc = "deeper" /\ Returned(Called(p))) =>
                           sat_chain_defined(tasks[Called(p)].res, f.idx, 0, f.n)
                     /\ f.pc \in {"skip", "call", "sync"} => tag < rel_var(f.idx)

\* the relation of a group is being applied to a non-empty set whose tag is
\* below the group's top variable: the set does not depend on the bit at
\* the top of the tail domain
C14_Witness ==
    /\ strategy = 2 /\ ~merge_relations
    /\ \E p \in DOMAIN tasks :
          /\ NonTerminal(tasks[p]) /\ tasks[p].pc = "deeper"
          /\ Returned(Called(p))
          /\ TBDD_GETTAG(tasks[p].key) > rel_var(tasks[p].idx)
          /\ sat_chain(tasks[Called(p)].res, tasks[p].idx, 0, tasks[p].n) # tasks[p].key

\* C15: in each level of bfs and par every group index 0..next_count-1 is
\* applied exactly once to the current frontier (in par: the ranges of the
\* two halves of a task split its range, down to one task per index); the
\* new frontier is the union over all groups of the image of the frontier
\* under the group minus visited, visited becomes visited united with the new
\* frontier, and the loop stops exactly when the new frontier is empty; so
\* the new frontier is disjoint from the previous visited set and contained
\* in the new one.
NewStates(cur, vis, from, len) ==
    UNION {Image(cur, j) \ vis : j \in from..(from + len - 1)}
C15_LevelStructure ==
    /\ [](\A p \in DOMAIN tasks : tasks[p].fn = "go_par" =>
            LET f == tasks[p]
            IN /\ f.len >= 1 /\ f.cur = front /\ f.visited = visited
               /\ p = Root => (f.from = 0 /\ f.len = next_count)
               /\ p # Root =>
                     LET q == SubSeq(p, 1, Len(p) - 1)
                     IN /\ Live(q) /\ tasks[q].len >= 2
                        /\ p = Spawned(q) =>
                              (f.from = tasks[q].from /\ f.len = tasks[q].len \div 2)
                        /\ p = Called(q) =>
                              /\ f.from = tasks[q].from + tasks[q].len \div 2
                              /\ f.len = tasks[q].len - tasks[q].len \div 2
               /\ f.pc \in {"call", "sync"} => f.len >= 2
               /\ f.pc = "ret" => f.res = NewStates(f.cur, f.visited, f.from, f.len))
    /\ [][(pc \in {"bfs", "par_call"} /\ iteration' = iteration + 1) =>
             /\ front' = NewStates(front, visited, 0, next_count)
             /\ visited' = visited \cup front'
             /\ front' \cap visited = {}
             /\ front' \subseteq visited'
             /\ (pc' = "returned") <=> (front' = tbdd_false)
             /\ (pc' = pc \/ pc' = "par") <=> (front' # tbdd_false)]_vars

\* a par level over three groups has joined all its tasks with new states,
\* after an earlier level
C15_Witness ==
    /\ pc = "par_call" /\ Returned(Root)
    /\ tasks[Root].len = 3
    /\ tasks[Root].res # tbdd_false
    /\ iteration >= 2
    /\ tasks[Root].res # Image(front, 0) \cup Image(front, 1) \cup Image(front, 2)

\* C16: in bfs and par, after iteration k (k >= 1) visited is exactly the set
\* of states reachable from the initial set in at most k transitions and the
\* frontier is exactly the set of states at shortest distance k; the number
\* of iterations is one more than the largest shortest distance of a
\* reachable state.
RECURSIVE Within(_)
Within(k) ==
    IF k = 0 THEN file.bdd
    ELSE LET W == Within(k - 1) IN W \cup Successors(W)
AtDistance(k) == Within(k) \ Within(k - 1)
MaxDistance ==
    CHOOSE d \in 0..Cardinality(StateSpace) :
        /\ Within(d) = Reachable
        /\ d > 0 => Within(d - 1) # Reachable
C16_BfsDistance ==
    (strategy \in {0, 1} /\ WellFormed) =>
        /\ \A k \in 1..Len(levels) :
              levels[k] = <<Within(k), AtDistance(k)>>
        /\ pc \in {"bfs", "par", "par_call"} =>
              /\ iteration = Len(levels) + 1
              /\ visited = Within(iteration - 1)
              /\ iteration > 1 => front = AtDistance(iteration - 1)
        /\ pc \in {"returned", "done"} =>
              /\ Len(levels) = MaxDistance + 1
              /\ iteration = Len(levels) + 1

\* par has returned after four iterations: some reachable state is three
\* transitions away from the initial set
C16_Witness ==
    /\ strategy = 1 /\ WellFormed /\ pc = "returned"
    /\ Len(levels) = 4
    /\ MaxDistance = 3
    /\ levels[3][2] # tbdd_false

\* C17: in each chaining iteration the groups are applied one after another
\* in array order, group i to next_level already united with the images of
\* groups 0..i-1 of the same iteration; then next_level becomes next_level
\* minus visited and visited becomes visited united with next_level, and the
\* loop stops exactly when next_level is empty.
RECURSIVE ChainedUpTo(_, _)
ChainedUpTo(S, i) ==
    IF i = 0 THEN S
    ELSE LET before == ChainedUpTo(S, i - 1)
         IN before \cup Image(before, i - 1)
TopVar(r) == IF r.variables = <<>> THEN NoVar ELSE r.variables[1]
\* the place of loaded group i in a stable ascending order
StableRank(nx, i) ==
    1 + Cardinality({j \in 1..Len(nx) :
                        \/ TopVar(nx[j]) < TopVar(nx[i])
                        \/ TopVar(nx[j]) = TopVar(nx[i]) /\ j < i})
StableSorted(nx) ==
    [k \in 1..Len(nx) |-> nx[CHOOSE i \in 1..Len(nx) : StableRank(nx, i) = k]]
Loaded ==
    [i \in 1..Len(file.groups) |->
        rel_load(rel_load_proj(file.groups[i]), file.groups[i])]
C18_SortStable ==
    [][(pc = "loaded") =>
          /\ next = Loaded
          /\ strategy \in {2, 3} =>
                /\ next' = StableSorted(next)
                /\ \A k \in 1..(Len(next') - 1) :
                      TopVar(next'[k]) <= TopVar(next'[k + 1])
          /\ strategy \in {0, 1} => next' = next
          /\ next_count' = next_count]_vars

\* three groups were sorted: the order changed, and two different groups of
\* the same top variable are adjacent in it
C18_Witness ==
    /\ strategy \in {2, 3} /\ pc = "ready"
    /\ next_count = 3 /\ next # Loaded
    /\ \E k \in 1..2 : /\ TopVar(next[k]) = TopVar(next[k + 1])
                       /\ next[k] # next[k + 1]

\* C19: after the merge step next_count is 1, groups 1 onward are cleared to
\* the empty relation, and next[0] relates a full state s to s' exactly when
\* some original group has a transition from s to s' on its own variables and
\* s' equals s on every state bit outside that group's variables; the result
\* of the pairwise big_union is the same for every interleaving of its forked
\* halves.
AllBits == 0..(totalbits - 1)
FullRelation(g) ==
    {<<Restrict(st[1], AllBits), Restrict(st[2], AllBits)>> :
        st \in {q \in StateSpace \X StateSpace : Step(q[1], q[2], g)}}
MergedRelation == UNION {FullRelation(file.groups[i]) : i \in 1..Len(file.groups)}
C19_MergeResult ==
    /\ [](\A p \in DOMAIN tasks :
             (tasks[p].fn = "big_union" /\ tasks[p].pc = "ret" /\ WellFormed) =>
                 /\ tasks[p].res =
                        UNION {next[j + 1].bdd :
                                  j \in tasks[p].first..(tasks[p].first + tasks[p].count - 1)}
                 /\ p = Root => tasks[p].res = MergedRelation)
    /\ [][(pc = "union" /\ pc' = "ready") =>
             /\ next_count' = 1
             /\ Len(next') = Len(next)
             /\ \A i \in 2..Len(next') :
                   next'[i].bdd = tbdd_false /\ next'[i].variables = <<>>
             /\ WellFormed =>
                   /\ next'[1].bdd = MergedRelation
                   /\ next'[1].variables = [i \in 1..(2 * totalbits) |-> i - 1]]_vars

\* three groups were merged, and no single group of the file has all the
\* transitions of the merged relation
C19_Witness ==
    /\ merge_relations /\ WellFormed /\ pc = "ready"
    /\ Len(next) = 3 /\ next_count = 1
    /\ next[1].bdd = MergedRelation
    /\ next[2].bdd = tbdd_false /\ next[3].variables = <<>>
    /\ \A i \in 1..Len(file.groups) : FullRelation(file.groups[i]) # MergedRelation

\* the forked halves of one big_union finish in either order
C19_CalledFirst ==
    /\ pc = "union" /\ Returned(Called(Root)) /\ Live(Spawned(Root))
    /\ tasks[Spawned(Root)].pc = "start"
C19_SpawnedFirst ==
    /\ pc = "union" /\ Returned(Spawned(Root)) /\ Live(Called(Root))
    /\ tasks[Called(Root)].pc = "start"

\* C20: for read and write projections that are each strictly ascending,
\* rel_load_proj computes a combined projection that is strictly ascending and
\* contains every index of either projection exactly once and nothing else,
\* and the relation's variable domain is exactly the current variable 2b and
\* the next variable 2b+1 of every bit b of every component in that combined
\* projection, in ascending order.
Combined(g) == a_proj(g.r_proj, g.w_proj, 0, 0, <<>>)
RECURSIVE SortedSeq(_)
SortedSeq(S) ==
    IF S = {} THEN <<>>
    ELSE LET least == CHOOSE x \in S : \A y \in S : x <= y
         IN <<least>> \o SortedSeq(S \ {least})
C20_CombinedProjection ==
    pc = "loaded" =>
        \A i \in 1..Len(file.groups) :
            LET g == file.groups[i]
                a == Combined(g)
            IN (Ascending(g.r_proj) /\ Ascending(g.w_proj)
                   /\ InRange(g.r_proj) /\ InRange(g.w_proj)) =>
                  /\ Ascending(a)
                  /\ Range(a) = Range(g.r_proj) \cup Range(g.w_proj)
                  /\ Len(a) = Cardinality(Range(g.r_proj) \cup Range(g.w_proj))
                  /\ next[i].variables =
                        SortedSeq(UNION {{2 * b, 2 * b + 1} :
                                            b \in UNION {CompBits(c) : c \in Range(a)}})
                  /\ next[i].r_proj = g.r_proj /\ next[i].w_proj = g.w_proj

\* a group that reads components 0 and 2 and writes components 1 and 2 was
\* loaded: the projections interleave and share an index
C20_Witness ==
    /\ pc = "loaded"
    /\ file.statebits = <<1, 2, 1>>
    /\ file.groups[1].r_proj = <<0, 2>> /\ file.groups[1].w_proj = <<1, 2>>
    /\ Combined(file.groups[1]) = <<0, 1, 2>>
    /\ next[1].variables = <<0, 1, 2, 3, 4, 5, 6, 7>>

\* C21: in go_par, go_sat and big_union every spawned subtask is joined
\* exactly once by the task that spawned it, before that task returns and
\* before the subtask's result is used; no task returns while one of its
\* spawned subtasks is still outstanding.
Forking == {"go_par", "go_sat", "big_union"}
\* the tasks whose results the task at p is still to take
Outstanding(p) == {q \in {Spawned(p), Called(p)} : Live(q)}
C21_SpawnJoin ==
    /\ [](\A p \in DOMAIN tasks :
             (tasks[p].fn \in Forking /\ (strategy = 2 => TailDomainsOK)) =>
                 \* a spawned subtask is outstanding exactly between the SPAWN
                 \* and the SYNC of its parent
                 /\ Live(Spawned(p)) <=> tasks[p].pc \in {"call", "sync"}
                 /\ tasks[p].pc = "ret" => Outstanding(p) = {}
                 \* no result is built while the spawned subtask is outstanding
                 /\ Live(Spawned(p)) => tasks[p].res = tbdd_false
                 \* every task but the root is the subtask of a live task
                 /\ p # Root => Live(SubSeq(p, 1, Len(p) - 1)))
    /\ [][\A p \in DOMAIN tasks :
             (tasks[p].fn \in Forking /\ (strategy = 2 => TailDomainsOK)) =>
                 \* the join: taken by the parent, at its SYNC, from a subtask
                 \* that has returned, and the parent returns after it
                 /\ (Live(Spawned(p)) /\ Spawned(p) \notin DOMAIN tasks') =>
                       /\ tasks[p].pc = "sync"
                       /\ Returned(Spawned(p))
                       /\ p \in DOMAIN tasks' /\ tasks'[p].pc = "ret"
                 \* the spawn: once, on the way from "start" to "call"
                 /\ (~Live(Spawned(p)) /\ Spawned(p) \in DOMAIN tasks') =>
                       /\ tasks[p].pc = "start"
                       /\ tasks'[p].pc = "call"
                       /\ tasks'[Spawned(p)].pc = "start"
                 \* a task that has returned is only taken by its parent
                 /\ (tasks[p].pc = "ret" /\ p \in DOMAIN tasks') =>
                       tasks'[p] = tasks[p]]_vars

\* par on three groups: the called half of the root has forked again and is
\* at its SYNC with its spawned subtask returned, while the root's own
\* spawned subtask has returned and waits to be joined
C21_Witness ==
    /\ strategy = 1 /\ pc = "par_call"
    /\ Live(Root) /\ tasks[Root].pc = "call"
    /\ Returned(Spawned(Root))
    /\ Live(Called(Root)) /\ tasks[Called(Root)].pc = "sync"
    /\ Returned(Spawned(Called(Root)))

\* C22: every task (go_bfs, bfs, go_par, par, go_sat, chaining,
\* extend_relation, big_union) returns with the worker's protected-reference
\* stacks at the depth they had on entry on every return path, including
\* go_sat's terminal and cache-hit returns, and whenever a task calls an
\* operation during which garbage collection may run, every diagram value it
\* uses afterwards is either rooted at that moment or passed as an argument to
\* that operation.
Names(r) == Range(r.ptrs) \cup Range(r.vals)
\* one call of an operation that may collect garbage: the local values the
\* caller uses after it, the values passed to it, the references at that moment
Point(used, args, r) == [used |-> used, args |-> args, refs |-> r]
Rooted(pt) == pt.used \subseteq (pt.args \cup Names(pt.refs) \cup Names(tbdd_refs))
\* the same call, with a parameter of the callee named as the caller's value
Passed(pt, param, value) ==
    [pt EXCEPT !.used = IF param \in @ THEN (@ \ {param}) \cup {value} ELSE @]

\* go_bfs (322-342); cur and visited are front and visited of bfs
RECURSIVE go_bfs_points(_, _, _)
go_bfs_points(r, from, len) ==
    IF len = 1
    THEN {Point({"visited"}, {"cur"}, r),
          Point({}, {"succ", "visited"}, tbdd_refs_push(r, "succ"))}
    ELSE LET left == tbdd_refs_push(go_bfs_refs(r, from, len \div 2), "left")
             right == tbdd_refs_push(go_bfs_refs(left, from + len \div 2,
                                                 len - len \div 2), "right")
         IN {Point({"cur", "visited"}, {"cur", "visited"}, r),
             Point({"left"}, {"cur", "visited"}, left),
             Point({}, {"left", "right"}, right)}
            \cup go_bfs_points(r, from, len \div 2)
            \cup go_bfs_points(left, from + len \div 2, len - len \div 2)

\* extend_relation (583-620), called with newvars pushed by main
extend_relation_points(r, vs) ==
    LET loop == eq_refs(r, vs, totalbits - 1)
    IN {Point({"eq"}, {"eq"}, r),
        Point({"low"}, {"eq"}, tbdd_refs_push(r, "low")),
        Point({}, {"low", "high"}, r),
        Point({"eq", "totaldom"}, {"relation", "variables", "totaldom"},
              tbdd_refs_push(loop, "eq")),
        Point({}, {"result", "eq", "totaldom"},
              tbdd_refs_push(tbdd_refs_push(loop, "eq"), "result"))}

\* the calls a task frame is in, or makes in its next step
FramePoints(f) ==
    IF f.fn = "go_sat"
    THEN CASE f.pc = "deeper" ->
                  {Point({"prev", "_set"}, {"set"}, f.refs),
                   Point({"set", "prev", "_set"}, {"set"}, f.refs),
                   Point({"prev", "_set"}, {"set", "step"}, f.refs)}
           [] f.pc = "skip" ->
                  {Point({"_set"}, {"set0"}, f.refs),
                   Point({"_set"}, {"result"}, f.refs)}
           [] f.pc = "call" -> {Point({"_set"}, {"high"}, f.refs)}
           [] f.pc = "sync" ->
                  {Point({"high", "_set"}, {}, f.refs),
                   Point({"_set"}, {"low", "high"}, tbdd_refs_pop(f.refs, 1))}
           [] OTHER -> {}
    ELSE IF f.fn = "go_par"
    THEN CASE f.pc = "start" /\ f.len = 1 ->
                  {Point({"visited"}, {"cur"}, f.refs),
                   Point({}, {"succ", "visited"}, tbdd_refs_push(f.refs, "succ"))}
           [] f.pc = "call" -> {Point({}, {"cur", "visited"}, f.refs)}
           [] f.pc = "sync" ->
                  {Point({"right"}, {}, f.refs),
                   Point({}, {"left", "right"}, tbdd_refs_push(f.refs, "left"))}
           [] OTHER -> {}
    ELSE CASE f.pc = "sync" ->
                  {Point({"right"}, {}, f.refs),
                   Point({}, {"left", "right"}, tbdd_refs_push(f.refs, "left"))}
           [] OTHER -> {}

\* the calls of main and of the strategy task
StrategyPoints ==
    CASE pc = "merge" ->
             LET r == tbdd_refs_push(tbdd_refs, "newvars")
             IN UNION {{Point({"newvars"}, {"newvars"}, r)}
                          \cup {Passed(pt, "totaldom", "newvars") :
                                   pt \in extend_relation_points(r, next[i].variables)} :
                       i \in 1..next_count}
      [] pc = "bfs" /\ next_count >= 1 ->
             {Point({"visited"}, {"front", "visited"}, tbdd_refs),
              Point({"visited", "front"}, {"visited", "front"}, tbdd_refs)}
             \cup {Passed(pt, "cur", "front") :
                      pt \in go_bfs_points(tbdd_refs, 0, next_count)}
      [] pc \in {"par", "par_call"} /\ next_count >= 1 ->
             {Point({"visited"}, {"front", "visited"}, tbdd_refs),
              Point({"visited", "front"}, {"visited", "front"}, tbdd_refs)}
      [] pc = "chaining" ->
             {Point({"next_level", "visited"}, {"next_level"}, tbdd_refs),
              Point({"next_level", "visited"}, {"next_level", "succ"}, tbdd_refs),
              Point({"next_level", "visited"}, {"next_level", "visited"}, tbdd_refs),
              Point({"next_level", "visited"}, {"visited", "next_level"}, tbdd_refs)}
      [] OTHER -> {}

\* a spawned subtask's result is protected from its SPAWN to its SYNC
SpawnsProtected(p) ==
    tasks[p].refs.spawns = Cardinality({q \in {Spawned(p)} : Live(q)})

C22_RefsBalanced ==
    (strategy = 2 => TailDomainsOK) =>
        \* tasks of the call tree: what a task pushed it has popped when it
        \* returns, on every return path
        /\ \A p \in DOMAIN tasks :
              /\ tasks[p].pc \in {"start", "ret"} => tasks[p].refs = NoRefs
              /\ SpawnsProtected(p)
              /\ \A pt \in FramePoints(tasks[p]) : Rooted(pt)
        \* bfs, par and chaining: the pointers pushed at the start are there
        \* at the end of every pass of the loop and gone at the return
        /\ pc = "bfs" => tbdd_refs = [NoRefs EXCEPT !.ptrs = <<"visited", "front">>]
        /\ pc \in {"par", "par_call"} =>
              tbdd_refs = [NoRefs EXCEPT !.ptrs = <<"visited", "front">>]
        /\ pc = "chaining" =>
              tbdd_refs = [NoRefs EXCEPT !.ptrs = <<"visited", "next_level", "succ">>]
        /\ pc \in {"start", "loaded", "merge", "union", "ready", "sat", "returned",
                   "done", "aborted"} => tbdd_refs = NoRefs
        \* go_bfs and extend_relation
        /\ (pc = "bfs" /\ next_count >= 1) =>
              go_bfs_refs(tbdd_refs, 0, next_count) = tbdd_refs
        /\ pc = "merge" =>
              \A i \in 1..next_count :
                  LET r == tbdd_refs_push(tbdd_refs, "newvars")
                  IN extend_relation_refs(r, next[i].variables) = r
        /\ \A pt \in StrategyPoints : Rooted(pt)

\* go_sat at the SYNC of its cofactor branch, inside a deeper call of a
\* fixpoint loop: _set is protected in both, the loop's three pointers are
\* pushed, the result of the CALL is pushed and the spawned subtask has
\* returned and is still protected
C22_Witness ==
    /\ strategy = 2 /\ TailDomainsOK /\ pc = "sat"
    /\ \E p \in DOMAIN tasks : \E q \in DOMAIN tasks :
          /\ tasks[p].fn = "go_sat" /\ tasks[p].pc = "sync"
          /\ tasks[p].refs = [ptrs |-> <<"_set">>, vals |-> <<"high">>, spawns |-> 1]
          /\ Returned(Spawned(p))
          /\ tasks[Spawned(p)].refs = NoRefs
          /\ tasks[q].pc = "deeper"
          /\ tasks[q].refs.ptrs = <<"_set", "set", "prev", "step">>
          /\ Len(q) < Len(p)

\* C23: from the moment a strategy starts until it returns, no strategy
\* changes next_count, the order of next[], or any group's diagram, variables,
\* projections or tail domain; the only model state a strategy changes is the
\* diagram of the result set (states->bdd), whose declared variables stay
\* unchanged.
InStrategy == pc \in {"ready", "bfs", "par", "par_call", "sat", "chaining"}
C23_FrameEffect ==
    /\ []((InStrategy \/ pc = "returned") =>
             /\ states.variables = set_load(file).variables
             /\ next_count = (IF merge_relations THEN 1 ELSE Len(file.groups))
             /\ Len(next) = Len(file.groups))
    /\ [][(InStrategy /\ (strategy = 2 => TailDomainsOK)) =>
             /\ next_count' = next_count
             /\ next' = next
             /\ states'.variables = states.variables
             /\ states' # states => pc' = "returned"
             /\ file' = file]_vars

\* bfs has returned with more states than the initial set, and next[] holds
\* the groups as they were loaded
C23_Witness ==
    /\ strategy = 0 /\ ~merge_relations /\ WellFormed /\ pc = "returned"
    /\ Len(levels) >= 3
    /\ states.bdd # set_load(file).bdd
    /\ states.variables = set_load(file).variables
    /\ next_count = 3 /\ next = Loaded

\* C24: for both a full-vector initial set (k = -1) and a projected initial
\* set (k >= 0), at the end of every iteration and at the end of every
\* strategy the running set's diagram depends only on variables of the set's
\* declared domain (set->variables), and every reported state count is the
\* number of satisfying assignments over that declared domain and equals the
\* number of states in the set.
Declared(S) == {Restrict(s, BitsOf(states.variables)) : s \in S}
Undeclared == (0..(totalbits - 1)) \ BitsOf(states.variables)
\* what a diagram over the declared domain can say about the other bits of
\* the states that share their declared bits: nothing at all, or that some of
\* them are zero
Fibre(S, a) ==
    {Restrict(s, Undeclared) : s \in {x \in S : Restrict(x, BitsOf(states.variables)) = a}}
WithinDeclared(S) ==
    \A a \in Declared(S) :
        \E Z \in SUBSET Undeclared :
            Fibre(S, a) = {r \in [Undeclared -> Bit] : \A b \in Z : r[b] = 0}
DeclaredDomainKept ==
    /\ pc \in {"bfs", "par", "par_call", "chaining"} => WithinDeclared(visited)
    /\ \A k \in 1..Len(levels) : WithinDeclared(levels[k][1])
    /\ pc \in {"returned", "done"} => WithinDeclared(states.bdd)
    /\ pc = "done" =>
          /\ final[run].count = Cardinality(Declared(states.bdd))
          /\ file.k = -1 => final[run].count = Cardinality(states.bdd)
C24_DeclaredDomain ==
    (/\ file.complete /\ ProjectionsInRange
     /\ strategy = 2 => TailDomainsOK) => DeclaredDomainKept

\* the same for full-vector initial sets only
C24_FullVector ==
    (/\ file.complete /\ ProjectionsInRange /\ file.k = -1
     /\ strategy = 2 => TailDomainsOK) => DeclaredDomainKept

\* C25: for a model with zero transition groups (next_count = 0), each of
\* the four strategies terminates and leaves the result set equal to the
\* initial set.
NoGroups == file.complete /\ Len(file.groups) = 0
C25_ZeroGroups ==
    \A c \in Unmerged :
        (NoGroups /\ run = c /\ pc = "ready")
            ~> (run = c /\ pc = "returned" /\ states.bdd = set_load(file).bdd)

\* the same for sat and chaining only
C25_SatAndChaining ==
    \A c \in {d \in Unmerged : Configs[d].strategy \in {2, 3}} :
        (NoGroups /\ run = c /\ pc = "ready")
            ~> (run = c /\ pc = "returned" /\ states.bdd = set_load(file).bdd)

====
